---- MODULE Spec2Model ----
(***************************************************************************)
(* Model of the document conversion pipeline: the token estimator          *)
(* (server/services/tokenCounter.ts), the format dispatcher and its        *)
(* per-format strategies (server/services/fileProcessor.ts), the in-memory *)
(* record store (server/storage.ts) and the upload / convert / delete      *)
(* routes with the background conversion task (server/routes.ts).          *)
(*                                                                         *)
(* A JavaScript string is a sequence of pieces; a piece is either one      *)
(* whitespace character or a non-empty string without whitespace.  The     *)
(* length of a string is the sum of the lengths of its pieces.             *)
(***************************************************************************)
EXTENDS Integers, Sequences, FiniteSets, TLC

(***************************************************************************)
(* State.  The server (routes.ts over MemStorage), processFile called      *)
(* directly, and the token estimator applied to bounded inputs are three   *)
(* specifications over one set of variables; each leaves the variables of  *)
(* the other two alone.                                                    *)
(***************************************************************************)
VARIABLES files, conversions, disk, task, responses, deleting, procAlive,
          nextFile, nextConv, clock, lastDone

srvVars == <<files, conversions, disk, task, responses, deleting, procAlive,
             nextFile, nextConv, clock, lastDone>>

VARIABLES pf

pfVars == <<pf>>

VARIABLES tokIn, tokOut

tokVars == <<tokIn, tokOut>>

vars == <<srvVars, pfVars, tokVars>>

(***************************************************************************)
(* Bounds of the model.                                                    *)
(***************************************************************************)
MaxTextLen == 4
MaxNum == 2
MaxFiles == 2
MaxConvs == 2
MaxRepeat == 3

(***************************************************************************)
(* Strings.                                                                *)
(***************************************************************************)
Whitespace == {" ", "\n", "\t"}

IsWs(p) == p \in Whitespace

\* the length of s[lo..hi], by halves
RECURSIVE TextLenIn(_, _, _)
TextLenIn(s, lo, hi) ==
  IF lo > hi THEN 0
  ELSE IF lo = hi THEN Len(s[lo])
  ELSE LET mid == (lo + hi) \div 2
       IN TextLenIn(s, lo, mid) + TextLenIn(s, mid + 1, hi)

\* String.prototype.length
TextLen(s) == TextLenIn(s, 1, Len(s))

\* s[lo..hi] cut at every piece that is in seps, by halves: the last part
\* of the left half and the first part of the right half are one part
RECURSIVE SplitEachIn(_, _, _, _)
SplitEachIn(s, lo, hi, seps) ==
  IF lo > hi THEN << <<>> >>
  ELSE IF lo = hi
  THEN IF s[lo] \in seps THEN << <<>>, <<>> >> ELSE << <<s[lo]>> >>
  ELSE LET mid == (lo + hi) \div 2
           l == SplitEachIn(s, lo, mid, seps)
           r == SplitEachIn(s, mid + 1, hi, seps)
       IN SubSeq(l, 1, Len(l) - 1) \o <<l[Len(l)] \o r[1]>>
            \o SubSeq(r, 2, Len(r))

NonEmpty(x) == Len(x) > 0

\* String.prototype.split(/\s+/): the parts between maximal whitespace
\* runs, that is the parts between whitespace characters without the empty
\* ones inside a run; the empty strings at either end stay
SplitWs(s) ==
  LET parts == SplitEachIn(s, 1, Len(s), Whitespace)
  IN (IF parts[1] = <<>> THEN << <<>> >> ELSE <<>>)
       \o SelectSeq(parts, NonEmpty)
       \o (IF Len(parts) > 1 /\ parts[Len(parts)] = <<>> THEN << <<>> >>
           ELSE <<>>)

\* text.split(/\s+/) without the filter
WordsUnfiltered(s) == SplitWs(s)

\* text.split(/\s+/).filter(word => word.length > 0)
Words(s) == SelectSeq(SplitWs(s), NonEmpty)

\* Array.prototype.join(sep) of a list of strings.
RECURSIVE Join(_, _)
Join(parts, sep) ==
  IF parts = <<>> THEN <<>>
  ELSE IF Len(parts) = 1 THEN parts[1]
  ELSE parts[1] \o sep \o Join(Tail(parts), sep)

DigitChar == <<"0", "1", "2", "3", "4", "5", "6", "7", "8", "9">>

\* String(n) of a non-negative integer: its decimal digits.
RECURSIVE Digits(_)
Digits(n) == IF n < 10 THEN <<DigitChar[n + 1]>>
             ELSE Digits(n \div 10) \o <<DigitChar[(n % 10) + 1]>>

\* Math.ceil(a % b): the remainder in place of the quotient
CeilRemainder(a, b) == a % b

\* Math.ceil(a / b) on non-negative integers.
\* Math.round(a / b)
RoundDiv(a, b) == (2 * a + b) \div (2 * b)

CeilDiv(a, b) == (a + b - 1) \div b

(***************************************************************************)
(* JSON-like values.  Every value carries every field so that any two      *)
(* values can be compared.                                                 *)
(***************************************************************************)
JStr(s) == [t |-> "str", s |-> s, n |-> 0, keys |-> <<>>, kids |-> <<>>]
JNum(n) == [t |-> "num", s |-> <<>>, n |-> n, keys |-> <<>>, kids |-> <<>>]
JBool(b) == [t |-> "bool", s |-> <<>>, n |-> IF b THEN 1 ELSE 0,
             keys |-> <<>>, kids |-> <<>>]
JNull == [t |-> "null", s |-> <<>>, n |-> 0, keys |-> <<>>, kids |-> <<>>]
JUndef == [t |-> "undef", s |-> <<>>, n |-> 0, keys |-> <<>>, kids |-> <<>>]
JArr(kids) == [t |-> "arr", s |-> <<>>, n |-> 0, keys |-> <<>>, kids |-> kids]
JObj(keys, kids) ==
  [t |-> "obj", s |-> <<>>, n |-> 0, keys |-> keys, kids |-> kids]

\* String(content) of a scalar.
ScalarString(v) ==
  CASE v.t = "num" -> Digits(v.n)
    [] v.t = "bool" -> IF v.n = 1 THEN <<"true">> ELSE <<"false">>
    [] v.t = "null" -> <<"null">>
    [] OTHER -> <<"undefined">>

(***************************************************************************)
(* TokenCounter                                                            *)
(***************************************************************************)
RECURSIVE extractTextFromContent(_)
RECURSIVE ExtractItems(_, _)
RECURSIVE ExtractEntries(_, _, _)
RECURSIVE ExtractEntriesValuesOnly(_, _, _)

\* content.map(item => this.extractTextFromContent(item))
ExtractItems(kids, i) ==
  IF i > Len(kids) THEN <<>>
  ELSE <<extractTextFromContent(kids[i])>> \o ExtractItems(kids, i + 1)

\* the loop over Object.entries(content) pushing the values only
ExtractEntriesValuesOnly(keys, kids, i) ==
  IF i > Len(keys) THEN <<>>
  ELSE <<extractTextFromContent(kids[i])>>
         \o ExtractEntriesValuesOnly(keys, kids, i + 1)

\* the textParts of the loop over Object.entries(content)
ExtractEntries(keys, kids, i) ==
  IF i > Len(keys) THEN <<>>
  ELSE << <<keys[i]>>, extractTextFromContent(kids[i]) >>
         \o ExtractEntries(keys, kids, i + 1)

extractTextFromContent(content) ==
  CASE content.t = "str" -> content.s
    [] content.t = "arr" -> Join(ExtractItems(content.kids, 1), <<" ">>)
    [] content.t = "obj" ->
         Join(ExtractEntries(content.keys, content.kids, 1), <<" ">>)
    [] OTHER -> ScalarString(content)

\* Math.round((charBasedEstimate + wordBasedEstimate) / 2) with the floor
\* in place of the rounding.
AverageFloor(charBasedEstimate, wordBasedEstimate) ==
  (charBasedEstimate + wordBasedEstimate) \div 2

\* Math.round((charBasedEstimate + wordBasedEstimate) / 2): the sum is an
\* integer, so the quotient is an integer or a half, and a half goes up.
Average(charBasedEstimate, wordBasedEstimate) ==
  (charBasedEstimate + wordBasedEstimate + 1) \div 2

estimateTokens(content) ==
  LET text == extractTextFromContent(content)
      charCount == TextLen(text)
      wordCount == Len(Words(text))
      charBasedEstimate == CeilDiv(charCount, 4)
      \* Math.ceil(wordCount * 1.3): the double product of an integer by
      \* 1.3 has the same ceiling as the exact 13 * wordCount / 10.
      wordBasedEstimate == CeilDiv(13 * wordCount, 10)
  IN Average(charBasedEstimate, wordBasedEstimate)

(***************************************************************************)
(* More of String.prototype and Array.prototype, as the strategies use it. *)
(***************************************************************************)
\* content.split('\n'): the parts between newlines, empty ones included
SplitNl(s) == SplitEachIn(s, 1, Len(s), {"\n"})

\* String.prototype.indexOf(c, i): the first index at or after i that
\* holds c, or Len(s) + 1
NextIndex(s, i, c) ==
  LET at == {k \in i..Len(s) : s[k] = c}
  IN IF at = {} THEN Len(s) + 1 ELSE CHOOSE k \in at : \A m \in at : k <= m

\* The last index of the whitespace run that starts at i (i itself is
\* whitespace).
RECURSIVE WsRunEnd(_, _)
WsRunEnd(s, i) ==
  IF i < Len(s) /\ IsWs(s[i + 1]) THEN WsRunEnd(s, i + 1) ELSE i

\* text.split(/\n\s*\n/): a separator starts at a newline and reaches, the
\* quantifier being greedy, the last newline of the whitespace run.
RECURSIVE SplitParaFrom(_, _, _)
SplitParaFrom(s, i, cur) ==
  IF i > Len(s) THEN <<cur>>
  ELSE IF s[i] = "\n"
       THEN LET nls == {k \in (i + 1)..WsRunEnd(s, i) : s[k] = "\n"}
            IN IF nls = {}
               THEN SplitParaFrom(s, i + 1, Append(cur, s[i]))
               ELSE LET last == CHOOSE k \in nls : \A m \in nls : m <= k
                    IN <<cur>> \o SplitParaFrom(s, last + 1, <<>>)
       ELSE LET next == NextIndex(s, i, "\n")
            IN SplitParaFrom(s, next, cur \o SubSeq(s, i, next - 1))

SplitPara(s) == SplitParaFrom(s, 1, <<>>)

RECURSIVE TrimStart(_)
TrimStart(s) ==
  IF s # <<>> /\ IsWs(Head(s)) THEN TrimStart(Tail(s)) ELSE s

RECURSIVE TrimEnd(_)
TrimEnd(s) ==
  IF s # <<>> /\ IsWs(s[Len(s)]) THEN TrimEnd(SubSeq(s, 1, Len(s) - 1))
  ELSE s

\* String.prototype.trim
Trim(s) == TrimEnd(TrimStart(s))

NonBlank(s) == Len(Trim(s)) > 0

\* the array itself, whatever its length
SliceWhole(a, n) == a

\* Array.prototype.slice(0, n)
SliceHead(a, n) == SubSeq(a, 1, IF Len(a) < n THEN Len(a) ELSE n)

\* Array.prototype.slice(n)
SliceFrom(a, n) == SubSeq(a, n + 1, Len(a))

\* Array.prototype.slice(-n)
SliceTail(a, n) == SubSeq(a, IF Len(a) < n THEN 1 ELSE Len(a) - n + 1, Len(a))

RECURSIVE MapTrim(_)
MapTrim(a) == IF a = <<>> THEN <<>> ELSE <<Trim(Head(a))>> \o MapTrim(Tail(a))

RECURSIVE StrList(_)
StrList(a) == IF a = <<>> THEN <<>> ELSE <<JStr(Head(a))>> \o StrList(Tail(a))

UpperOf == [c \in {"a", "b", "c", "d", "e", "f", "g", "i", "j", "l", "m",
                   "n", "o", "p", "s", "t", "v", "w", "x"} |->
  CASE c = "a" -> "A" [] c = "b" -> "B" [] c = "c" -> "C" [] c = "d" -> "D"
    [] c = "e" -> "E" [] c = "f" -> "F" [] c = "g" -> "G" [] c = "i" -> "I"
    [] c = "j" -> "J" [] c = "l" -> "L" [] c = "m" -> "M" [] c = "n" -> "N"
    [] c = "o" -> "O" [] c = "p" -> "P" [] c = "s" -> "S" [] c = "t" -> "T"
    [] c = "v" -> "V" [] c = "w" -> "W" [] OTHER -> "X"]

LowerChar(c) ==
  IF \E l \in DOMAIN UpperOf : UpperOf[l] = c
  THEN CHOOSE l \in DOMAIN UpperOf : UpperOf[l] = c
  ELSE c

UpperChar(c) == IF c \in DOMAIN UpperOf THEN UpperOf[c] ELSE c

\* String.prototype.toLowerCase, a string of one-character pieces.
RECURSIVE toLowerCase(_)
toLowerCase(s) ==
  IF s = <<>> THEN <<>> ELSE <<LowerChar(Head(s))>> \o toLowerCase(Tail(s))

\* String.prototype.toUpperCase, a string of one-character pieces.
RECURSIVE toUpperCase(_)
toUpperCase(s) ==
  IF s = <<>> THEN <<>> ELSE <<UpperChar(Head(s))>> \o toUpperCase(Tail(s))

(***************************************************************************)
(* Errors: new Error(message), and `${error}` of one.                      *)
(***************************************************************************)
NoError == [name |-> "", message |-> <<>>]

NewError(name, message) == [name |-> name, message |-> message]

\* Error.prototype.toString: name, a colon, a space, the message.
ErrorString(e) == <<e.name \o ":", " ">> \o e.message

(***************************************************************************)
(* Objects: reading a property, and assigning one (obj.key = value keeps   *)
(* the position of a key the object already has).                          *)
(***************************************************************************)
HasKey(obj, key) == \E i \in 1..Len(obj.keys) : obj.keys[i] = key

Get(obj, key) ==
  IF HasKey(obj, key)
  THEN obj.kids[CHOOSE i \in 1..Len(obj.keys) : obj.keys[i] = key]
  ELSE JUndef

SetField(obj, key, value) ==
  IF HasKey(obj, key)
  THEN [obj EXCEPT !.kids[CHOOSE i \in 1..Len(obj.keys) : obj.keys[i] = key]
                     = value]
  ELSE JObj(Append(obj.keys, key), Append(obj.kids, value))

\* A sentence of words separated by single spaces.
RECURSIVE W(_)
W(ws) == IF ws = <<>> THEN <<>>
         ELSE IF Len(ws) = 1 THEN <<ws[1]>>
         ELSE <<ws[1], " ">> \o W(Tail(ws))

(***************************************************************************)
(* Files.  A file is what its readers obtain from it: size and birth date  *)
(* (fs.stat), text (fs.readFile as utf-8 for txt, md and xml; the text the *)
(* parser extracts for pdf and docx), valid (the pdf or docx parser        *)
(* accepts it), pages / hasInfo / info (pdf-parse), html / messages        *)
(* (mammoth), headers / rows / csvValid (csv-parser), json / jsonValid     *)
(* (JSON.parse).  Texts of files are strings of one-character pieces.      *)
(***************************************************************************)
DocRich ==
  [size |-> 1536, birth |-> "2024-05-01",
   text |-> <<"a", "b", " ", "c", ".", "\n", "\n", "T", "i", "t", "l", "e",
              "\n", " ", "\n", "<", "x", " ", "y", ">", "d", "<", "/", "x",
              ">", "\n", "\n", "\n", "e", " ", "f", "\n">>,
   valid |-> TRUE, pages |-> 2, hasInfo |-> TRUE,
   info |-> << <<"R", "e", "p", "o", "r", "t">>, <<>>, <<>>, <<"w">>, <<>>,
               <<>>, <<>> >>,
   html |-> <<"<", "p", ">", "a", "b", " ", "c", ".", "<", "/", "p", ">",
              "<", "h", "1", ">", "T", "i", "t", "l", "e", "<", "/", "h", "1",
              ">", "<", "p", ">", "d", " ", "e", " ", "f", "<", "/", "p",
              ">">>,
   messages |-> <<>>,
   headers |-> <<"name", "age">>,
   rows |-> << << <<"A", "l">>, <<"3", "0">> >>,
               << <<"B", "o">>, <<"2", ".", "5">> >> >>,
   csvValid |-> TRUE,
   json |-> JObj(<<"a", "b">>,
                 <<JNum(1), JArr(<<JStr(<<"x", " ", "y">>), JNull>>)>>),
   jsonValid |-> TRUE]

DocEmpty ==
  [size |-> 0, birth |-> "2024-05-02", text |-> <<>>, valid |-> FALSE,
   pages |-> 0, hasInfo |-> FALSE, info |-> <<>>, html |-> <<>>,
   messages |-> <<>>, headers |-> <<>>, rows |-> <<>>, csvValid |-> TRUE,
   json |-> JNull, jsonValid |-> FALSE]

DocBlank ==
  [size |-> 4, birth |-> "2024-05-03", text |-> <<" ", "\n", "\n", "\t">>,
   valid |-> TRUE, pages |-> 1, hasInfo |-> FALSE, info |-> <<>>,
   html |-> <<>>,
   messages |-> << W(<<"Unrecognised", "paragraph", "style">>) >>,
   headers |-> <<"k">>, rows |-> << << <<>> >> >>, csvValid |-> TRUE,
   json |-> JNull, jsonValid |-> TRUE]

DocScalar ==
  [size |-> 1024 * 1024 + 131072, birth |-> "2024-05-04",
   text |-> <<"<", "a", ">", "<", "a", " ", "b", ">", "o", "k">>,
   valid |-> TRUE, pages |-> 1, hasInfo |-> TRUE,
   info |-> <<<<>>, <<>>, <<>>, <<>>, <<>>, <<>>, <<>>>>,
   html |-> <<"o", "k">>, messages |-> <<>>,
   headers |-> <<"f">>,
   rows |-> << << <<"t", "r", "u", "e">> >> >>, csvValid |-> FALSE,
   json |-> JStr(<<"h", "i">>), jsonValid |-> TRUE]

DocList ==
  [size |-> 5, birth |-> "2024-05-05",
   text |-> <<"o", "n", "e", "\n", "t", "w", "o">>,
   valid |-> TRUE, pages |-> 3, hasInfo |-> FALSE, info |-> <<>>,
   html |-> <<"<", "b", ">", "o", "n", "e", "<", "/", "b", ">", "\n", "t",
              "w", "o">>,
   messages |-> <<>>,
   headers |-> <<"a", "b">>,
   rows |-> << << <<"1">>, <<>> >>, << <<"x">>, <<>> >>,
               << <<"2">>, <<>> >> >>,
   csvValid |-> TRUE,
   json |-> JArr(<<JNum(1), JNum(2), JObj(<<>>, <<>>), JStr(<<"z">>)>>),
   jsonValid |-> TRUE]

\* n one-letter words: single spaces between them, a newline after
\* every fiftieth
WordsText(n) ==
  [i \in 1..(2 * n - 1) |->
     IF i % 2 = 1 THEN "w" ELSE IF i % 100 = 0 THEN "\n" ELSE " "]

\* twelve rows: column a is filled in every row; b only in the last two;
\* c from the fifth row on; d holds a number, then a word
LongRows ==
  [i \in 1..12 |->
     <<Digits(i),
       IF i > 10 THEN <<"x">> ELSE <<>>,
       IF i > 4 THEN <<"T", "r", "u", "e">> ELSE <<>>,
       IF i = 1 THEN <<"7">> ELSE <<"n", "o">> >>]

\* 201 words, 12 rows
DocLong ==
  [size |-> 2048, birth |-> "2024-05-06", text |-> WordsText(201),
   valid |-> TRUE, pages |-> 1, hasInfo |-> FALSE, info |-> <<>>,
   html |-> <<>>, messages |-> <<>>,
   headers |-> <<"a", "b", "c", "d">>, rows |-> LongRows, csvValid |-> TRUE,
   json |-> JNum(7), jsonValid |-> TRUE]

\* 251 words in 6 paragraphs and 16 lines: 240 words in one paragraph
\* of 5 lines, then five paragraphs of one to three short lines
DocLonger ==
  [size |-> 4096, birth |-> "2024-05-07",
   text |-> WordsText(240)
              \o <<"\n", "\n", "a", "\n", "b", "\n", " ", "\n", "c", "\n",
                   "\n", "\n", "d", "\n", "e", "\n", "f", "\n", "\t", "\n",
                   "g", "\n", "h", "\n", "\n", "i", "\n", "j", "\n", "k">>,
   valid |-> TRUE, pages |-> 2, hasInfo |-> FALSE, info |-> <<>>,
   html |-> <<>>, messages |-> <<>>, headers |-> <<>>, rows |-> <<>>,
   csvValid |-> TRUE, json |-> JBool(TRUE), jsonValid |-> TRUE]

\* the files of the model, by name
Docs == {"rich", "empty", "blank", "scalar", "list", "long", "longer"}

\* the files of a few words and rows
ShortDocs == Docs \ {"long", "longer"}

DocTable ==
  [d \in Docs |->
     CASE d = "rich" -> DocRich
       [] d = "empty" -> DocEmpty
       [] d = "blank" -> DocBlank
       [] d = "scalar" -> DocScalar
       [] d = "long" -> DocLong
       [] d = "longer" -> DocLonger
       [] OTHER -> DocList]

\* the file a call of processFile reads
DocOf(call) == DocTable[call.doc]

(***************************************************************************)
(* FileProcessor.  A call of processFile is a record: its arguments, the   *)
(* file as the file system and the parsers present it (doc), the position  *)
(* of the call (pc), the rows the CSV stream has delivered, the file       *)
(* system operations it has issued on filePath (fsOps), and its outcome:   *)
(* the envelope it returned or the error it threw.                         *)
(***************************************************************************)
Modes == {"summary", "full_content", "metadata_only"}

\* baseResult with the tag as given for document_type
baseResultRaw(call) ==
  JObj(<<"document_type", "filename", "processed_at", "conversion_type",
         "metadata", "content">>,
       <<JStr(call.fileType), JStr(call.filename),
         JStr(<<call.now>>), JStr(<<call.options.conversionType>>),
         JObj(<<>>, <<>>), JObj(<<>>, <<>>)>>)

\* const baseResult: ProcessedContent = { ... }
baseResult(call) ==
  JObj(<<"document_type", "filename", "processed_at", "conversion_type",
         "metadata", "content">>,
       <<JStr(toLowerCase(call.fileType)), JStr(call.filename),
         JStr(<<call.now>>), JStr(<<call.options.conversionType>>),
         JObj(<<>>, <<>>), JObj(<<>>, <<>>)>>)

\* text.split(/\n\s*\n/).filter(p => p.trim().length > 0)
Paragraphs(text) == SelectSeq(SplitPara(text), NonBlank)

\* text.split('\n').filter(line => line.trim().length > 0)
Lines(text) == SelectSeq(SplitNl(text), NonBlank)

\* data.info.X || undefined
OrUndefined(s) == IF s = <<>> THEN JUndef ELSE JStr(s)

PdfInfoKeys == <<"title", "author", "subject", "creator", "producer",
                 "creation_date", "modification_date">>

RECURSIVE MapOrUndefined(_)
MapOrUndefined(a) ==
  IF a = <<>> THEN <<>>
  ELSE <<OrUndefined(Head(a))>> \o MapOrUndefined(Tail(a))

\* processPDF: baseResult.metadata
PdfMetadata(call) ==
  LET doc == DocOf(call)
      basic == JObj(<<"file_size", "pages", "created_date", "word_count",
                      "character_count">>,
                    <<JNum(doc.size), JNum(doc.pages), JStr(<<doc.birth>>),
                      JNum(Len(Words(doc.text))), JNum(TextLen(doc.text))>>)
  IN IF doc.hasInfo
     THEN JObj(basic.keys \o PdfInfoKeys,
               basic.kids \o MapOrUndefined(doc.info))
     ELSE basic

\* processPDF: baseResult.content
PdfContent(call, metadata) ==
  LET doc == DocOf(call)
      mode == call.options.conversionType
      words == Words(doc.text)
      paragraphs == Paragraphs(doc.text)
  IN IF mode = "summary"
     THEN LET lines == Lines(doc.text)
          IN JObj(<<"summary", "first_paragraphs", "last_paragraphs",
                    "key_statistics">>,
                  <<JStr(W(<<"PDF", "document", "with">>) \o <<" ">>
                           \o Digits(doc.pages) \o <<" ">>
                           \o W(<<"pages", "containing">>) \o <<" ">>
                           \o Digits(Len(words)) \o <<" ">>
                           \o W(<<"words", "across">>) \o <<" ">>
                           \o Digits(Len(lines)) \o <<" ", "lines.">>),
                    JArr(StrList(SliceHead(paragraphs, 3))),
                    JArr(StrList(SliceTail(paragraphs, 2))),
                    JObj(<<"pages", "words", "lines", "paragraphs">>,
                         <<JNum(doc.pages), JNum(Len(words)),
                           JNum(Len(lines)), JNum(Len(paragraphs))>>)>>)
     ELSE IF mode = "full_content"
     THEN LET lines == SplitNl(doc.text)
          IN JObj(<<"full_text", "paragraphs", "lines", "formatting">>,
                  <<JStr(doc.text), JArr(StrList(paragraphs)),
                    JArr(StrList(IF call.options.preserveFormatting
                                 THEN lines
                                 ELSE SelectSeq(MapTrim(lines), NonEmpty))),
                    JStr(IF call.options.preserveFormatting
                         THEN <<"preserved">> ELSE <<"cleaned">>)>>)
     ELSE JObj(<<"structure">>,
               <<JObj(<<"document_type", "pages", "has_text",
                        "estimated_reading_time_minutes">>,
                      <<JStr(<<"PDF">>), JNum(doc.pages),
                        JBool(TextLen(doc.text) > 0),
                        JNum(CeilDiv(Get(metadata, "word_count").n, 200))>>)>>)

\* trimmed.split(' ').length
SpaceParts(s) == Cardinality({i \in 1..Len(s) : s[i] = " "}) + 1

\* the filter of potentialHeadings; a document's punctuation is a piece
\* of its own
IsHeading(line) ==
  LET trimmed == Trim(line)
  IN /\ TextLen(trimmed) < 100
     /\ SpaceParts(trimmed) <= 8
     /\ ~(trimmed # <<>> /\ trimmed[Len(trimmed)] = ".")
     /\ TextLen(trimmed) > 3

\* processDOCX with the markup rendered whatever preserveFormatting is
DocxMetadataAlwaysHtml(call) ==
  LET doc == DocOf(call)
      plainText == doc.text
      basic == JObj(<<"file_size", "word_count", "character_count",
                      "line_count", "created_date", "has_formatting">>,
                    <<JNum(doc.size), JNum(Len(Words(plainText))),
                      JNum(TextLen(plainText)), JNum(Len(Lines(plainText))),
                      JStr(<<doc.birth>>),
                      JBool(TextLen(doc.html) > TextLen(plainText))>>)
  IN IF Len(doc.messages) > 0
     THEN SetField(basic, "conversion_messages", JArr(StrList(doc.messages)))
     ELSE basic

\* processDOCX: baseResult.metadata; htmlResult is null unless
\* preserveFormatting
DocxMetadata(call) ==
  LET doc == DocOf(call)
      plainText == doc.text
      basic == JObj(<<"file_size", "word_count", "character_count",
                      "line_count", "created_date", "has_formatting">>,
                    <<JNum(doc.size), JNum(Len(Words(plainText))),
                      JNum(TextLen(plainText)), JNum(Len(Lines(plainText))),
                      JStr(<<doc.birth>>),
                      JBool(IF call.options.preserveFormatting
                            THEN TextLen(doc.html) > TextLen(plainText)
                            ELSE FALSE)>>)
  IN IF Len(doc.messages) > 0
     THEN SetField(basic, "conversion_messages", JArr(StrList(doc.messages)))
     ELSE basic

\* processDOCX: baseResult.content
DocxContent(call) ==
  LET doc == DocOf(call)
      mode == call.options.conversionType
      plainText == doc.text
      words == Words(plainText)
      lines == Lines(plainText)
      paragraphs == Paragraphs(plainText)
  IN IF mode = "summary"
     THEN JObj(<<"summary", "first_paragraphs", "last_paragraphs",
                 "potential_sections", "key_statistics">>,
               <<JStr(W(<<"Word", "document", "with">>) \o <<" ">>
                        \o Digits(Len(words)) \o <<" ">>
                        \o W(<<"words", "across">>) \o <<" ">>
                        \o Digits(Len(paragraphs)) \o <<" ", "paragraphs.">>),
                 JArr(StrList(SliceHead(paragraphs, 3))),
                 JArr(StrList(SliceTail(paragraphs, 2))),
                 JArr(StrList(SliceHead(SelectSeq(lines, IsHeading), 10))),
                 JObj(<<"words", "paragraphs", "lines", "estimated_pages">>,
                      <<JNum(Len(words)), JNum(Len(paragraphs)),
                        JNum(Len(lines)), JNum(CeilDiv(Len(words), 250))>>)>>)
     ELSE IF mode = "full_content"
     THEN LET content ==
                JObj(<<"full_text", "paragraphs", "lines", "formatting">>,
                     <<JStr(plainText), JArr(StrList(paragraphs)),
                       JArr(StrList(lines)),
                       JStr(IF call.options.preserveFormatting
                            THEN <<"preserved">> ELSE <<"plain">>)>>)
          IN IF call.options.preserveFormatting
             THEN SetField(content, "html_content", JStr(doc.html))
             ELSE content
     ELSE JObj(<<"structure">>,
               <<JObj(<<"document_type", "has_text",
                        "estimated_reading_time_minutes", "estimated_pages">>,
                      <<JStr(<<"DOCX">>), JBool(TextLen(plainText) > 0),
                        JNum(CeilDiv(Len(words), 200)),
                        JNum(CeilDiv(Len(words), 250))>>)>>)

\* processText: baseResult.metadata
TextMetadata(call) ==
  LET content == DocOf(call).text
  IN JObj(<<"file_size", "line_count", "word_count", "character_count">>,
          <<JNum(DocOf(call).size), JNum(Len(SplitNl(content))),
            JNum(Len(SplitWs(content))), JNum(TextLen(content))>>)

\* processText with a structure block in metadata_only mode, as the
\* binary formats have one
TextContentWithStructure(call) ==
  LET content == DocOf(call).text
      mode == call.options.conversionType
  IN IF mode = "summary"
     THEN LET lines == Lines(content)
          IN JObj(<<"summary", "first_lines", "last_lines">>,
                  <<JStr(W(<<"Text", "file", "with">>) \o <<" ">>
                           \o Digits(Len(lines)) \o <<" ">>
                           \o W(<<"lines", "of", "content.">>)),
                    JArr(StrList(SliceHead(lines, 5))),
                    JArr(StrList(SliceTail(lines, 5)))>>)
     ELSE IF mode = "full_content"
     THEN JObj(<<"full_text", "lines">>,
               <<JStr(content), JArr(StrList(SplitNl(content)))>>)
     ELSE JObj(<<"structure">>,
               <<JObj(<<"document_type", "has_text">>,
                      <<JStr(<<"TEXT">>), JBool(TextLen(content) > 0)>>)>>)

\* processText: baseResult.content, which stays {} in metadata_only mode
TextContent(call) ==
  LET content == DocOf(call).text
      mode == call.options.conversionType
  IN IF mode = "summary"
     THEN LET lines == Lines(content)
          IN JObj(<<"summary", "first_lines", "last_lines">>,
                  <<JStr(W(<<"Text", "file", "with">>) \o <<" ">>
                           \o Digits(Len(lines)) \o <<" ">>
                           \o W(<<"lines", "of", "content.">>)),
                    JArr(StrList(SliceHead(lines, 5))),
                    JArr(StrList(SliceTail(lines, 5)))>>)
     ELSE IF mode = "full_content"
     THEN JObj(<<"full_text", "lines">>,
               <<JStr(content), JArr(StrList(SplitNl(content)))>>)
     ELSE JObj(<<>>, <<>>)

\* one row object of csv-parser: the header names as keys, in column order
RowObject(headers, values) == JObj(headers, StrList(values))

\* Object.keys(rows[0]) as strings
RECURSIVE KeyTexts(_)
KeyTexts(keys) ==
  IF keys = <<>> THEN <<>> ELSE << <<Head(keys)>> >> \o KeyTexts(Tail(keys))

DigitSet == {DigitChar[i] : i \in 1..10}

IsDigits(s) == Len(s) > 0 /\ \A i \in 1..Len(s) : s[i] \in DigitSet

Unsigned(s) == IF s # <<>> /\ Head(s) \in {"+", "-"} THEN Tail(s) ELSE s

\* digits with at most one decimal point and at least one digit
IsMantissa(s) ==
  LET dots == {i \in 1..Len(s) : s[i] = "."}
  IN /\ Cardinality(dots) <= 1
     /\ \A i \in 1..Len(s) : s[i] \in DigitSet \cup {"."}
     /\ \E i \in 1..Len(s) : s[i] \in DigitSet

\* !isNaN(Number(value)) of a string of one-character pieces: blank is 0;
\* otherwise a signed decimal literal with an optional exponent (the hex,
\* octal, binary and Infinity literals are outside the modelled alphabet)
IsNumeric(value) ==
  LET t == Trim(value)
      u == Unsigned(t)
      es == {i \in 1..Len(u) : u[i] \in {"e", "E"}}
  IN \/ t = <<>>
     \/ es = {} /\ IsMantissa(u)
     \/ /\ Cardinality(es) = 1
        /\ LET e == CHOOSE i \in es : TRUE
           IN /\ IsMantissa(SubSeq(u, 1, e - 1))
              /\ IsDigits(Unsigned(SubSeq(u, e + 1, Len(u))))

\* rows.map(row => row[header]).filter(val => val != null && val !== '')
RECURSIVE ColumnValues(_, _)
ColumnValues(rows, header) ==
  IF rows = <<>> THEN <<>>
  ELSE LET val == Get(Head(rows), header)
       IN (IF val.t = "str" /\ val.s # <<>> THEN <<val.s>> ELSE <<>>)
            \o ColumnValues(Tail(rows), header)

\* the type inferDataTypes gives one column
ColumnType(rows, header) ==
  LET values == ColumnValues(rows, header)
  IN IF Len(values) = 0 THEN <<"unknown">>
     ELSE LET firstValue == values[1]
          IN IF IsNumeric(firstValue)
             THEN IF \E i \in 1..Len(firstValue) : firstValue[i] = "."
                  THEN <<"float">> ELSE <<"integer">>
             ELSE IF toLowerCase(firstValue) \in
                       {<<"t", "r", "u", "e">>, <<"f", "a", "l", "s", "e">>}
             THEN <<"boolean">>
             ELSE <<"string">>

RECURSIVE ColumnTypes(_, _)
ColumnTypes(rows, headers) ==
  IF headers = <<>> THEN <<>>
  ELSE <<JStr(ColumnType(rows, Head(headers)))>>
         \o ColumnTypes(rows, Tail(headers))

inferDataTypes(rows) ==
  IF Len(rows) = 0 THEN JObj(<<>>, <<>>)
  ELSE JObj(rows[1].keys, ColumnTypes(rows, rows[1].keys))

\* processCSV, the 'end' handler: headers
CsvHeaders(rows) == IF Len(rows) > 0 THEN rows[1].keys ELSE <<>>

\* the metadata of processCSV with the header list left to the branches
\* that emit rows
CsvMetadataByMode(call) ==
  LET rows == call.rows
      headers == CsvHeaders(rows)
  IN JObj(<<"file_size", "row_count", "column_count", "headers">>,
          <<JNum(DocOf(call).size), JNum(Len(rows)), JNum(Len(headers)),
            JArr(IF call.options.conversionType = "metadata_only" THEN <<>>
                 ELSE StrList(KeyTexts(headers)))>>)

\* processCSV, the 'end' handler: baseResult.metadata
CsvMetadata(call) ==
  LET rows == call.rows
      headers == CsvHeaders(rows)
  IN JObj(<<"file_size", "row_count", "column_count", "headers">>,
          <<JNum(DocOf(call).size), JNum(Len(rows)), JNum(Len(headers)),
            JArr(StrList(KeyTexts(headers)))>>)

\* processCSV, the 'end' handler: baseResult.content
CsvContent(call) ==
  LET rows == call.rows
      headers == CsvHeaders(rows)
      mode == call.options.conversionType
  IN IF mode = "summary"
     THEN JObj(<<"summary", "headers", "sample_rows">>,
               <<JStr(W(<<"CSV", "file", "with">>) \o <<" ">>
                        \o Digits(Len(rows)) \o <<" ">>
                        \o W(<<"rows", "and">>) \o <<" ">>
                        \o Digits(Len(headers)) \o <<" ", "columns.">>),
                 JArr(StrList(KeyTexts(headers))),
                 JArr(SliceHead(rows, 5))>>)
     ELSE IF mode = "full_content"
     THEN JObj(<<"headers", "data">>,
               <<JArr(StrList(KeyTexts(headers))), JArr(rows)>>)
     ELSE JObj(<<"structure">>,
               <<JObj(<<"headers", "data_types">>,
                      <<JArr(StrList(KeyTexts(headers))),
                        inferDataTypes(SliceHead(rows, 10))>>)>>)

\* Object.keys(jsonData) of a value that is not null: the keys of an
\* object, the indices of an array or of a string, nothing of a number or
\* a boolean
ObjectKeys(v) ==
  CASE v.t = "obj" -> KeyTexts(v.keys)
    [] v.t = "arr" -> [i \in 1..Len(v.kids) |-> Digits(i - 1)]
    [] v.t = "str" -> [i \in 1..TextLen(v.s) |-> Digits(i - 1)]
    [] OTHER -> <<>>

\* processJSON: baseResult.metadata
JsonMetadata(call) ==
  LET jsonData == DocOf(call).json
      isArray == jsonData.t = "arr"
  IN JObj(<<"file_size", "structure_type", "key_count">>,
          <<JNum(DocOf(call).size),
            JStr(IF isArray THEN <<"array">> ELSE <<"object">>),
            JNum(IF isArray THEN Len(jsonData.kids)
                 ELSE Len(ObjectKeys(jsonData)))>>)

\* processJSON with the data of full_content cut as the sample of the
\* summary is
JsonContentSampled(call, metadata) ==
  LET jsonData == DocOf(call).json
      isArray == jsonData.t = "arr"
      mode == call.options.conversionType
  IN IF mode = "metadata_only" THEN JObj(<<>>, <<>>)
     ELSE IF mode = "full_content"
     THEN JObj(<<"data">>,
               <<IF isArray THEN JArr(SliceHead(jsonData.kids, 3))
                 ELSE jsonData>>)
     ELSE JObj(<<"summary", "top_level_keys", "sample_data">>,
               <<JStr(<<"JSON", " ">> \o Get(metadata, "structure_type").s
                        \o <<" ", "with", " ">>
                        \o Digits(Get(metadata, "key_count").n)
                        \o <<" ", "items/keys.">>),
                 JArr(StrList(IF isArray THEN << <<"array_items">> >>
                              ELSE SliceHead(ObjectKeys(jsonData), 10))),
                 IF isArray THEN JArr(SliceHead(jsonData.kids, 3))
                 ELSE jsonData>>)

\* processJSON: baseResult.content, which stays {} in metadata_only mode
JsonContent(call, metadata) ==
  LET jsonData == DocOf(call).json
      isArray == jsonData.t = "arr"
      mode == call.options.conversionType
  IN IF mode = "summary"
     THEN JObj(<<"summary", "top_level_keys", "sample_data">>,
               <<JStr(<<"JSON", " ">> \o Get(metadata, "structure_type").s
                        \o <<" ", "with", " ">>
                        \o Digits(Get(metadata, "key_count").n)
                        \o <<" ", "items/keys.">>),
                 JArr(StrList(IF isArray THEN << <<"array_items">> >>
                              ELSE SliceHead(ObjectKeys(jsonData), 10))),
                 IF isArray THEN JArr(SliceHead(jsonData.kids, 3))
                 ELSE jsonData>>)
     ELSE IF mode = "full_content"
     THEN JObj(<<"data">>, <<jsonData>>)
     ELSE JObj(<<>>, <<>>)

\* the index of the first '>' at or after j, or 0
FirstGt(s, j) ==
  IF NextIndex(s, j, ">") > Len(s) THEN 0 ELSE NextIndex(s, j, ">")

\* content.match(/<[^/>][^>]*>/g) || []
RECURSIVE TagMatchesFrom(_, _)
TagMatchesFrom(s, i) ==
  IF i > Len(s) THEN <<>>
  ELSE IF s[i] = "<" /\ i + 1 <= Len(s) /\ s[i + 1] \notin {"/", ">"}
            /\ FirstGt(s, i + 2) # 0
       THEN <<SubSeq(s, i, FirstGt(s, i + 2))>>
              \o TagMatchesFrom(s, FirstGt(s, i + 2) + 1)
       ELSE TagMatchesFrom(s, NextIndex(s, i + 1, "<"))

TagMatches(s) == TagMatchesFrom(s, 1)

\* the index after the run of [^>\s] characters that starts at p
RECURSIVE NameEnd(_, _)
NameEnd(t, p) ==
  IF p <= Len(t) /\ ~IsWs(t[p]) /\ t[p] # ">" THEN NameEnd(t, p + 1) ELSE p

\* whether /<\/?([^>\s]+).*?>/ matches the tag t at i; t has one '>', its
\* last character, and '.' does not match a newline
NameMatchAt(t, i) ==
  /\ t[i] = "<"
  /\ NameEnd(t, i + 1) > i + 1
  /\ \A k \in NameEnd(t, i + 1)..(Len(t) - 1) : t[k] # "\n"

\* tag.replace(/<\/?([^>\s]+).*?>/g, '$1')
TagName(t) ==
  LET at == {i \in 1..Len(t) : NameMatchAt(t, i)}
  IN IF at = {} THEN t
     ELSE LET i == CHOOSE k \in at : \A m \in at : k <= m
              p == IF t[i + 1] = "/" /\ NameEnd(t, i + 2) > i + 2
                   THEN i + 2 ELSE i + 1
          IN SubSeq(t, 1, i - 1) \o SubSeq(t, p, NameEnd(t, p) - 1)

\* Array.from(new Set(a)): the first occurrences, in order
RECURSIVE Unique(_)
Unique(a) ==
  IF a = <<>> THEN <<>>
  ELSE LET rest == Unique(SubSeq(a, 1, Len(a) - 1))
           x == a[Len(a)]
       IN IF \E i \in 1..Len(rest) : rest[i] = x THEN rest
          ELSE Append(rest, x)

RECURSIVE MapTagName(_)
MapTagName(a) ==
  IF a = <<>> THEN <<>> ELSE <<TagName(Head(a))>> \o MapTagName(Tail(a))

UniqueTags(content) == Unique(MapTagName(TagMatches(content)))

\* processXML: baseResult.metadata
XmlMetadata(call) ==
  LET content == DocOf(call).text
      uniqueTags == UniqueTags(content)
  IN JObj(<<"file_size", "tag_count", "unique_tags", "root_elements">>,
          <<JNum(DocOf(call).size), JNum(Len(TagMatches(content))),
            JNum(Len(uniqueTags)), JArr(StrList(SliceHead(uniqueTags, 5)))>>)

\* content.substring(0, 500) of a string of one-character pieces
Substring500(content) == SliceHead(content, 500)

\* processXML: baseResult.content, which stays {} in metadata_only mode
XmlContent(call) ==
  LET content == DocOf(call).text
      uniqueTags == UniqueTags(content)
      mode == call.options.conversionType
  IN IF mode = "summary"
     THEN JObj(<<"summary", "structure", "sample_content">>,
               <<JStr(W(<<"XML", "document", "with">>) \o <<" ">>
                        \o Digits(Len(uniqueTags)) \o <<" ">>
                        \o W(<<"unique", "tag", "types.">>)),
                 JArr(StrList(uniqueTags)), JStr(Substring500(content))>>)
     ELSE IF mode = "full_content"
     THEN JObj(<<"xml_content", "parsed_structure">>,
               <<JStr(content),
                 JStr(W(<<"Full", "XML", "parsing", "would", "be",
                          "implemented", "here">>))>>)
     ELSE JObj(<<>>, <<>>)

ImageTags == {<<"j", "p", "g">>, <<"j", "p", "e", "g">>, <<"p", "n", "g">>,
              <<"g", "i", "f">>, <<"b", "m", "p">>, <<"w", "e", "b", "p">>}

\* getMimeType
getMimeType(fileType) ==
  LET t == toLowerCase(fileType)
  IN CASE t \in {<<"j", "p", "g">>, <<"j", "p", "e", "g">>} -> <<"image/jpeg">>
       [] t = <<"p", "n", "g">> -> <<"image/png">>
       [] t = <<"g", "i", "f">> -> <<"image/gif">>
       [] t = <<"b", "m", "p">> -> <<"image/bmp">>
       [] t = <<"w", "e", "b", "p">> -> <<"image/webp">>
       [] OTHER -> <<"image/unknown">>

Pow1024(i) == IF i = 0 THEN 1 ELSE IF i = 1 THEN 1024
              ELSE IF i = 2 THEN 1024 * 1024 ELSE 1024 * 1024 * 1024

SizeUnits == <<"B", "KB", "MB", "GB">>

\* formatFileSize, for sizes below 1024^4: parseFloat of toFixed(2) drops
\* the trailing zeros of the fraction
formatFileSize(bytes) ==
  IF bytes = 0 THEN <<"0", " ", "B">>
  ELSE LET i == IF bytes < 1024 THEN 0
                ELSE IF bytes < 1024 * 1024 THEN 1
                ELSE IF bytes < 1024 * 1024 * 1024 THEN 2 ELSE 3
           hundredths == (2 * 100 * bytes + Pow1024(i)) \div (2 * Pow1024(i))
           frac == hundredths % 100
       IN Digits(hundredths \div 100)
            \o (IF frac = 0 THEN <<>>
                ELSE IF frac % 10 = 0 THEN <<".", DigitChar[(frac \div 10) + 1]>>
                ELSE <<".", DigitChar[(frac \div 10) + 1],
                       DigitChar[(frac % 10) + 1]>>)
            \o <<" ", SizeUnits[i + 1]>>

\* processImage with the format fields left out unless images are asked
\* for
ImageMetadataIfIncluded(call) ==
  LET documentType == toLowerCase(call.fileType)
  IN IF call.options.includeImages
     THEN JObj(<<"file_size", "created_date", "mime_type", "format">>,
               <<JNum(DocOf(call).size), JStr(<<DocOf(call).birth>>),
                 JStr(getMimeType(documentType)),
                 JStr(toUpperCase(documentType))>>)
     ELSE JObj(<<"file_size", "created_date">>,
               <<JNum(DocOf(call).size), JStr(<<DocOf(call).birth>>)>>)

\* processImage: baseResult.metadata
ImageMetadata(call) ==
  LET documentType == toLowerCase(call.fileType)
  IN JObj(<<"file_size", "created_date", "mime_type", "format">>,
          <<JNum(DocOf(call).size), JStr(<<DocOf(call).birth>>),
            JStr(getMimeType(documentType)),
            JStr(toUpperCase(documentType))>>)

\* processImage: baseResult.content
ImageContent(call) ==
  LET documentType == toLowerCase(call.fileType)
      format == JStr(toUpperCase(documentType))
      size == JStr(formatFileSize(DocOf(call).size))
      mode == call.options.conversionType
  IN IF mode = "summary"
     THEN JObj(<<"summary", "image_info">>,
               <<JStr(toUpperCase(documentType)
                        \o <<" ", "image", " ", "file", " ", "(">>
                        \o formatFileSize(DocOf(call).size) \o <<")">>),
                 JObj(<<"format", "file_size", "estimated_type">>,
                      <<format, size,
                        JStr(W(<<"Image", "file", "-", "content", "cannot",
                                 "be", "extracted", "as", "text">>))>>)>>)
     ELSE IF mode = "full_content"
     THEN JObj(<<"message", "image_info", "available_operations">>,
               <<JStr(W(<<"Image", "files", "cannot", "be", "converted",
                          "to", "text", "content">>)),
                 JObj(<<"format", "file_size", "file_path", "mime_type">>,
                      <<format, size, JStr(call.filePath),
                        JStr(getMimeType(documentType))>>),
                 JArr(<<JStr(W(<<"View", "image">>)),
                        JStr(W(<<"Download", "original", "file">>)),
                        JStr(W(<<"Get", "metadata", "information">>))>>)>>)
     ELSE JObj(<<"structure">>,
               <<JObj(<<"document_type", "format", "is_binary",
                        "processing_note">>,
                      <<JStr(<<"IMAGE">>), format, JBool(TRUE),
                        JStr(W(<<"Binary", "image", "file", "-", "no", "text",
                                 "content", "available">>))>>)>>)

(***************************************************************************)
(* processFile, step by step.  The call runs up to its next suspension     *)
(* (an fs promise, a parser promise, a stream event); each operator below  *)
(* takes the call from one suspension to the next, to its return or to     *)
(* its throw.                                                              *)
(***************************************************************************)
Pdf == <<"p", "d", "f">>
Docx == <<"d", "o", "c", "x">>
Txt == <<"t", "x", "t">>
Md == <<"m", "d">>
Csv == <<"c", "s", "v">>
Json == <<"j", "s", "o", "n">>
Xml == <<"x", "m", "l">>

\* the cases of the switch
KnownTags == {Pdf, Docx, Txt, Md, Csv, Json, Xml} \cup ImageTags

\* catch (error) { throw new Error(`Failed to process ${fileType} file: ${error}`) }
PFCatch(call, error) ==
  [call EXCEPT !.pc = "threw",
               !.error = NewError("Error",
                           W(<<"Failed", "to", "process">>) \o <<" ">>
                             \o call.fileType \o <<" ", "file:", " ">>
                             \o ErrorString(error))]

\* return baseResult, its metadata and content assigned by the strategy
PFReturn(call, metadata, content) ==
  [call EXCEPT !.pc = "returned",
               !.result = SetField(SetField(baseResult(call), "metadata",
                                            metadata), "content", content)]

\* an fs call on filePath is issued and the call waits for it
PFAwaitFs(call, op, pc) ==
  [call EXCEPT !.pc = pc, !.fsOps = Append(call.fsOps, op)]

\* the rejection of an fs promise
FsError(op) ==
  NewError("Error", <<"ENOENT:", " ">>
                      \o W(<<"no", "such", "file", "or", "directory,">>)
                      \o <<" ", op>>)

\* processFile with an fs.stat of filePath ahead of the switch
PFInvokeStatFirst(call) ==
  LET tag == toLowerCase(call.fileType)
      c2 == [call EXCEPT !.fsOps = Append(call.fsOps, "stat")]
  IN IF tag = Csv THEN PFAwaitFs(call, "stat", "stat")
     ELSE IF tag \in KnownTags THEN PFAwaitFs(call, "readFile", "read")
     ELSE PFCatch(c2, NewError("Error",
                   W(<<"Unsupported", "file", "type:">>) \o <<" ">>
                     \o call.fileType))

\* processFile from its entry: the switch on fileType.toLowerCase(), and
\* the chosen strategy up to its first await
PFInvoke(call) ==
  LET tag == toLowerCase(call.fileType)
  IN IF tag = Csv THEN PFAwaitFs(call, "stat", "stat")
     ELSE IF tag \in KnownTags THEN PFAwaitFs(call, "readFile", "read")
     ELSE PFCatch(call, NewError("Error",
                   W(<<"Unsupported", "file", "type:">>) \o <<" ">>
                     \o call.fileType))

\* await fs.readFile(filePath): processJSON parses before its stat
PFReadDone(call, ok) ==
  LET tag == toLowerCase(call.fileType)
  IN IF ~ok THEN PFCatch(call, FsError("open"))
     ELSE IF tag = Json /\ ~DocOf(call).jsonValid
     THEN PFCatch(call, NewError("SyntaxError",
                    W(<<"Unexpected", "token", "in", "JSON">>)))
     ELSE PFAwaitFs(call, "stat", "stat")

\* await fs.stat(filePath), and what the strategy does next
PFStatDone(call, ok) ==
  LET tag == toLowerCase(call.fileType)
  IN IF ~ok THEN PFCatch(call, FsError("stat"))
     ELSE IF tag = Csv THEN PFAwaitFs(call, "createReadStream", "stream")
     ELSE IF tag \in {Pdf, Docx} THEN [call EXCEPT !.pc = "parse"]
     ELSE IF tag \in {Txt, Md}
     THEN PFReturn(call, TextMetadata(call), TextContent(call))
     ELSE IF tag = Json
     THEN IF DocOf(call).json.t = "null"
          THEN PFCatch(call, NewError("TypeError",
                 W(<<"Cannot", "convert", "undefined", "or", "null", "to",
                     "object">>)))
          ELSE PFReturn(call, JsonMetadata(call),
                        JsonContent(call, JsonMetadata(call)))
     ELSE IF tag = Xml
     THEN PFReturn(call, XmlMetadata(call), XmlContent(call))
     ELSE PFReturn(call, ImageMetadata(call), ImageContent(call))

\* await pdfParse(buffer), or await mammoth.extractRawText and
\* convertToHtml: the inner catch names the parser
PFParseDone(call) ==
  LET tag == toLowerCase(call.fileType)
      cause == NewError("Error", W(<<"Invalid", "document", "structure">>))
  IN IF tag = Pdf
     THEN IF DocOf(call).valid
          THEN PFReturn(call, PdfMetadata(call),
                        PdfContent(call, PdfMetadata(call)))
          ELSE PFCatch(call, NewError("Error",
                 W(<<"Failed", "to", "parse", "PDF:">>) \o <<" ">>
                   \o ErrorString(cause)))
     ELSE IF DocOf(call).valid
          THEN PFReturn(call, DocxMetadata(call), DocxContent(call))
          ELSE PFCatch(call, NewError("Error",
                 W(<<"Failed", "to", "parse", "DOCX:">>) \o <<" ">>
                   \o ErrorString(cause)))

\* .on('data', (data) => rows.push(data))
PFStreamData(call) ==
  [call EXCEPT !.rows = Append(call.rows,
     RowObject(DocOf(call).headers, DocOf(call).rows[Len(call.rows) + 1]))]

\* .on('end', ...): the envelope is built and the promise resolved
PFStreamEnd(call) == PFReturn(call, CsvMetadata(call), CsvContent(call))

\* .on('error', reject) on the parser stream
PFStreamParserError(call) ==
  PFCatch(call, NewError("Error", W(<<"Row", "exceeds", "the", "maximum",
                                       "size">>)))

\* an 'error' event of the read stream: createReadStream(filePath) has no
\* 'error' listener and pipe() forwards none, so the event is thrown as
\* an uncaught exception; the promise stays pending
PFStreamReadError(call) == [call EXCEPT !.pc = "crashed"]

OptionSets ==
  [conversionType : Modes, includeTables : BOOLEAN,
   includeImages : BOOLEAN, preserveFormatting : BOOLEAN]

NoCall ==
  [fileType |-> <<>>, filename |-> <<>>, filePath |-> <<>>, now |-> "",
   options |-> [conversionType |-> "summary", includeTables |-> FALSE,
                includeImages |-> FALSE, preserveFormatting |-> FALSE],
   doc |-> "empty", pc |-> "none", rows |-> <<>>, fsOps |-> <<>>,
   result |-> JNull, error |-> NoError]

\* the arguments of a call of processFile that has not started
NewCall(filePath, filename, fileType, options, doc, now) ==
  [NoCall EXCEPT !.fileType = fileType, !.filename = filename,
                 !.filePath = filePath, !.now = now, !.options = options,
                 !.doc = doc, !.pc = "start"]

(***************************************************************************)
(* processFile called directly: the same file, tag and boolean options     *)
(* under each of the three conversion modes, one call per mode.            *)
(***************************************************************************)
PFTags ==
  KnownTags \cup {<<"P", "D", "F">>, <<"D", "o", "c", "X">>, <<"M", "d">>,
                  <<"C", "S", "V">>, <<"J", "s", "o", "n">>,
                  <<"X", "M", "L">>, <<"P", "n", "g">>, <<"T", "X", "T">>,
                  <<"e", "x", "e">>, <<"E", "X", "E">>, <<>>,
                  <<"p", "d", "f", "x">>}

PFInit ==
  \E fileType \in PFTags, doc \in ShortDocs,
     includeTables \in BOOLEAN, includeImages \in BOOLEAN,
     preserveFormatting \in BOOLEAN :
    pf = [m \in Modes |->
            NewCall(<<"uploads/f1">>, <<"my", " ", "file">>, fileType,
                    [conversionType |-> m, includeTables |-> includeTables,
                     includeImages |-> includeImages,
                     preserveFormatting |-> preserveFormatting],
                    doc, "2025-01-01T00:00:00.000Z")]

PFCall(m) ==
  /\ pf[m].pc = "start"
  /\ pf' = [pf EXCEPT ![m] = PFInvoke(pf[m])]
  /\ UNCHANGED <<srvVars, tokVars>>

PFRead(m) ==
  /\ pf[m].pc = "read"
  /\ \E ok \in BOOLEAN : pf' = [pf EXCEPT ![m] = PFReadDone(pf[m], ok)]
  /\ UNCHANGED <<srvVars, tokVars>>

PFStat(m) ==
  /\ pf[m].pc = "stat"
  /\ \E ok \in BOOLEAN : pf' = [pf EXCEPT ![m] = PFStatDone(pf[m], ok)]
  /\ UNCHANGED <<srvVars, tokVars>>

PFParse(m) ==
  /\ pf[m].pc = "parse"
  /\ pf' = [pf EXCEPT ![m] = PFParseDone(pf[m])]
  /\ UNCHANGED <<srvVars, tokVars>>

PFData(m) ==
  /\ pf[m].pc = "stream"
  /\ Len(pf[m].rows) < Len(DocOf(pf[m]).rows)
  /\ pf' = [pf EXCEPT ![m] = PFStreamData(pf[m])]
  /\ UNCHANGED <<srvVars, tokVars>>

PFEnd(m) ==
  /\ pf[m].pc = "stream"
  /\ Len(pf[m].rows) = Len(DocOf(pf[m]).rows)
  /\ DocOf(pf[m]).csvValid
  /\ pf' = [pf EXCEPT ![m] = PFStreamEnd(pf[m])]
  /\ UNCHANGED <<srvVars, tokVars>>

PFParserError(m) ==
  /\ pf[m].pc = "stream"
  /\ Len(pf[m].rows) = Len(DocOf(pf[m]).rows)
  /\ ~DocOf(pf[m]).csvValid
  /\ pf' = [pf EXCEPT ![m] = PFStreamParserError(pf[m])]
  /\ UNCHANGED <<srvVars, tokVars>>

PFReadError(m) ==
  /\ pf[m].pc = "stream"
  /\ pf' = [pf EXCEPT ![m] = PFStreamReadError(pf[m])]
  /\ UNCHANGED <<srvVars, tokVars>>

PFNext ==
  \E m \in Modes :
    \/ PFCall(m)
    \/ PFRead(m)
    \/ PFStat(m)
    \/ PFParse(m)
    \/ PFData(m)
    \/ PFEnd(m)
    \/ PFParserError(m)
    \/ PFReadError(m)

(***************************************************************************)
(* processFile called twice on the same file, tag and mode, once with      *)
(* options off and once with them on.  Either the two calls have the same  *)
(* preserveFormatting and the second has includeTables or includeImages    *)
(* on, or they have the same two flags and only the second has             *)
(* preserveFormatting on.                                                  *)
(***************************************************************************)
FlagLanes == {"plain", "flagged"}

FlagsInit ==
  \E fileType \in PFTags, doc \in Docs, mode \in Modes,
     includeTables \in BOOLEAN, includeImages \in BOOLEAN,
     preserveFormatting \in BOOLEAN, formatting \in BOOLEAN :
    /\ IF formatting THEN preserveFormatting /\ includeTables = includeImages
       ELSE includeTables \/ includeImages
    /\ pf = [l \in FlagLanes |->
               NewCall(<<"uploads/f1">>, <<"my", " ", "file">>, fileType,
                       [conversionType |-> mode,
                        includeTables |->
                          includeTables /\ (formatting \/ l = "flagged"),
                        includeImages |->
                          includeImages /\ (formatting \/ l = "flagged"),
                        preserveFormatting |->
                          preserveFormatting
                            /\ (~formatting \/ l = "flagged")],
                       doc, IF l = "plain" THEN "2025-01-01T00:00:00.000Z"
                            ELSE "2025-01-01T00:00:07.000Z")]

\* the token estimate the upload form shows before a conversion; floor(x *
\* 0.3), floor(x * 0.1), floor(x * 0.8) and floor(x * 0.9) of doubles are
\* the integer quotients below for every x up to 3,000,000
estimatedTokens(fileSize, conversionType, includeTables, includeImages) ==
  LET quarter == fileSize \div 4
      byType == IF conversionType = "summary" THEN (3 * quarter) \div 10
                ELSE IF conversionType = "metadata_only" THEN quarter \div 10
                ELSE quarter
      byTables == IF ~includeTables THEN (4 * byType) \div 5 ELSE byType
      byImages == IF ~includeImages THEN (9 * byTables) \div 10
                  ELSE byTables
  IN IF byImages < 50 THEN 50 ELSE byImages

FlagsNext ==
  \E l \in FlagLanes :
    \/ PFCall(l)
    \/ PFRead(l)
    \/ PFStat(l)
    \/ PFParse(l)
    \/ PFData(l)
    \/ PFEnd(l)
    \/ PFParserError(l)
    \/ PFReadError(l)

(***************************************************************************)
(* MemStorage                                                              *)
(***************************************************************************)
FileIds == 1..MaxFiles
ConvIds == 1..MaxConvs

NoFile ==
  [exists |-> FALSE, filename |-> <<>>, originalName |-> <<>>,
   fileType |-> <<>>, fileSize |-> 0, status |-> ""]

NoConv ==
  [exists |-> FALSE, fileId |-> 0, conversionType |-> "",
   options |-> [includeTables |-> FALSE, includeImages |-> FALSE,
                preserveFormatting |-> FALSE],
   status |-> "", jsonOutput |-> JNull, tokenCount |-> JNull,
   error |-> JNull, createdAt |-> 0]

\* createFile: status: insertFile.status || "pending"
createFile(fs, id, insertFile) ==
  [fs EXCEPT ![id] =
     [exists |-> TRUE, filename |-> insertFile.filename,
      originalName |-> insertFile.originalName,
      fileType |-> insertFile.fileType, fileSize |-> insertFile.fileSize,
      status |-> IF insertFile.status = "" THEN "pending"
                 ELSE insertFile.status]]

\* updateFileStatus that writes the status of every file in the map
updateFileStatusAll(fs, id, status) ==
  [f \in DOMAIN fs |->
     IF fs[f].exists THEN [fs[f] EXCEPT !.status = status] ELSE fs[f]]

\* updateFileStatus that keeps a terminal status once one is written
updateFileStatusFirstWins(fs, id, status) ==
  IF id \in DOMAIN fs /\ fs[id].exists
       /\ ~(fs[id].status \in {"completed", "error"}
              /\ status \in {"completed", "error"})
  THEN [fs EXCEPT ![id].status = status]
  ELSE fs

\* updateFileStatus: nothing happens when the id is not in the map
updateFileStatus(fs, id, status) ==
  IF id \in DOMAIN fs /\ fs[id].exists
  THEN [fs EXCEPT ![id].status = status]
  ELSE fs

\* deleteFile: this.files.delete(id)
deleteFileRecord(fs, id) == [fs EXCEPT ![id] = NoFile]

\* deleteFile that leaves the conversions of the file in the map
deleteFileOnly(cs, id) == cs

\* deleteFile: the conversions whose fileId is id are deleted as well
deleteFileConversions(cs, id) ==
  [c \in DOMAIN cs |-> IF cs[c].exists /\ cs[c].fileId = id THEN NoConv
                       ELSE cs[c]]

\* createConversion: the fields the insert leaves out become null
createConversion(cs, id, insertConversion, createdAt) ==
  [cs EXCEPT ![id] =
     [exists |-> TRUE, fileId |-> insertConversion.fileId,
      conversionType |-> insertConversion.conversionType,
      options |-> insertConversion.options,
      status |-> IF insertConversion.status = "" THEN "pending"
                 ELSE insertConversion.status,
      jsonOutput |-> JNull, tokenCount |-> JNull, error |-> JNull,
      createdAt |-> createdAt]]

\* updateConversion that sets the record, also when the id is not in the
\* map
updateConversionUpsert(cs, id, updates) ==
  IF id \in DOMAIN cs
  THEN [cs EXCEPT ![id] =
          [k \in DOMAIN cs[id] |->
             IF k \in DOMAIN updates THEN updates[k]
             ELSE IF k = "exists" THEN TRUE ELSE cs[id][k]]]
  ELSE cs

\* updateConversion that merges the updates into every conversion of the
\* same file
updateConversionOfFile(cs, id, updates) ==
  IF id \in DOMAIN cs /\ cs[id].exists
  THEN [c \in DOMAIN cs |->
          IF cs[c].exists /\ cs[c].fileId = cs[id].fileId
          THEN [k \in DOMAIN cs[c] |->
                  IF k \in DOMAIN updates THEN updates[k] ELSE cs[c][k]]
          ELSE cs[c]]
  ELSE cs

\* updateConversion that merges only the status into the record
updateConversionStatusOnly(cs, id, updates) ==
  IF id \in DOMAIN cs /\ cs[id].exists
  THEN [cs EXCEPT ![id].status = updates.status]
  ELSE cs

\* updateConversion: { ...conversion, ...updates }, and nothing when the
\* id is not in the map
updateConversion(cs, id, updates) ==
  IF id \in DOMAIN cs /\ cs[id].exists
  THEN [cs EXCEPT ![id] =
          [k \in DOMAIN cs[id] |->
             IF k \in DOMAIN updates THEN updates[k] ELSE cs[id][k]]]
  ELSE cs

(***************************************************************************)
(* The routes and the background conversion task.                          *)
(*                                                                         *)
(* One action is one turn of the event loop.  A MemStorage method is an    *)
(* async function without an await of its own, so the continuation of      *)
(* `await storage.x()` runs in the microtask queue of the same turn; a     *)
(* turn ends where the code awaits the file system, a parser or a stream   *)
(* event, or where it hands a callback to setImmediate.                    *)
(***************************************************************************)
\* a filter that also admits executables
AllowedTypesAndExe ==
  {Pdf, Docx, Txt, Md, Csv, Json, Xml, <<"e", "x", "e">>}

\* fileFilter: allowedTypes, the dots left out
AllowedTypes == {Pdf, Docx, Txt, Md, Csv, Json, Xml}

\* the uploads of the model: the extension of the original name, and the
\* file itself
Uploads ==
  {[ext |-> Pdf, doc |-> "rich"], [ext |-> <<"C", "S", "V">>, doc |-> "blank"],
   [ext |-> Csv, doc |-> "scalar"], [ext |-> Json, doc |-> "empty"],
   [ext |-> <<"e", "x", "e">>, doc |-> "rich"]}

\* the request bodies of the model
Requests ==
  {[conversionType |-> "summary", includeTables |-> TRUE,
    includeImages |-> FALSE, preserveFormatting |-> FALSE],
   [conversionType |-> "full_content", includeTables |-> FALSE,
    includeImages |-> TRUE, preserveFormatting |-> TRUE],
   [conversionType |-> "metadata_only", includeTables |-> FALSE,
    includeImages |-> FALSE, preserveFormatting |-> FALSE],
   [conversionType |-> "brief", includeTables |-> FALSE,
    includeImages |-> FALSE, preserveFormatting |-> FALSE],
   [includeTables |-> TRUE, includeImages |-> FALSE,
    preserveFormatting |-> FALSE]}

\* insertConversionSchema.parse: conversionType is a text column, which
\* drizzle-zod turns into z.string(): any string passes, a body without
\* the key does not
insertConversionSchemaParses(body) == "conversionType" \in DOMAIN body

\* a schema that takes the three modes only
insertConversionSchemaOfModes(body) ==
  "conversionType" \in DOMAIN body /\ body.conversionType \in Modes

NoTask == [call |-> NoCall, fileId |-> 0]

NoResponse ==
  [sent |-> FALSE, status |-> "", jsonOutput |-> JNull, tokenCount |-> JNull,
   taskPc |-> ""]

SrvInit ==
  /\ files = [f \in FileIds |-> NoFile]
  /\ conversions = [c \in ConvIds |-> NoConv]
  /\ disk = [f \in FileIds |-> [present |-> FALSE, doc |-> "empty"]]
  /\ task = [c \in ConvIds |-> NoTask]
  /\ responses = [c \in ConvIds |-> NoResponse]
  /\ deleting = {}
  /\ procAlive = TRUE
  /\ nextFile = 1
  /\ nextConv = 1
  /\ clock = 0
  /\ lastDone = [f \in FileIds |-> 0]

\* path.join('uploads', file.filename); multer names the stored file
StoredName(id) == <<"f" \o DigitChar[id + 1]>>

FilePath(filename) == <<"uploads/" \o filename[1]>>

\* POST /api/files/upload, one file: the filter admits the extension, and
\* the record gets the lower-cased extension as its type
Upload(u) ==
  /\ procAlive
  /\ nextFile <= MaxFiles
  /\ toLowerCase(u.ext) \in AllowedTypes
  /\ files' = createFile(files, nextFile,
                [filename |-> StoredName(nextFile),
                 originalName |-> <<"r", ".">> \o u.ext,
                 fileType |-> toLowerCase(u.ext),
                 fileSize |-> DocTable[u.doc].size,
                 status |-> "uploaded"])
  /\ disk' = [disk EXCEPT ![nextFile] = [present |-> TRUE, doc |-> u.doc]]
  /\ nextFile' = nextFile + 1
  /\ UNCHANGED <<conversions, task, responses, deleting, procAlive, nextConv,
                 clock, lastDone, pfVars, tokVars>>

\* the callback runs inside the request handler instead of being handed
\* to setImmediate
RunCallbackNow(call) == PFInvoke(call)

\* setImmediate(async () => { ... }): the callback is queued
SetImmediate(call) == [call EXCEPT !.pc = "scheduled"]

\* res.json({ conversion: { ...conversion, jsonOutput: null, tokenCount: null } })
Respond(conversion, call) ==
  [sent |-> TRUE, status |-> conversion.status, jsonOutput |-> JNull,
   tokenCount |-> JNull, taskPc |-> call.pc]

\* POST /api/files/:id/convert for a file that exists
ConvertRequest(f, r) ==
  /\ procAlive
  /\ nextConv <= MaxConvs
  /\ files[f].exists
  /\ insertConversionSchemaParses(r)
  /\ clock' = clock + 1
  /\ LET file == files[f]
         c == nextConv
         cs == createConversion(conversions, c,
                 [fileId |-> f, conversionType |-> r.conversionType,
                  options |-> [includeTables |-> r.includeTables,
                               includeImages |-> r.includeImages,
                               preserveFormatting |-> r.preserveFormatting],
                  status |-> "processing"],
                 clock')
         call == SetImmediate(NewCall(FilePath(file.filename),
                                      file.originalName, file.fileType, r,
                                      disk[f].doc,
                                      "2025-01-01T00:00:00.000Z"))
     IN /\ conversions' = cs
        /\ task' = [task EXCEPT ![c] = [call |-> call, fileId |-> f]]
        /\ responses' = [responses EXCEPT ![c] = Respond(cs[c], call)]
  /\ nextConv' = nextConv + 1
  /\ UNCHANGED <<files, disk, deleting, procAlive, nextFile, lastDone,
                 pfVars, tokVars>>

\* POST /api/files/:id/convert with a body the schema rejects: the parse
\* throws before createConversion and setImmediate, and the catch answers
\* 500 "Failed to start conversion"
ConvertRejected(f, r) ==
  /\ procAlive
  /\ files[f].exists
  /\ ~insertConversionSchemaParses(r)
  /\ UNCHANGED <<srvVars, pfVars, tokVars>>

\* the callback after processFile has settled: the try block past the
\* await, or the catch block; an uncaught exception ends the process
Resume(c, call, fs) ==
  LET f == task[c].fileId
  IN /\ task' = [task EXCEPT ![c].call = call]
     /\ IF call.pc = "returned"
        THEN /\ conversions' =
                  updateConversion(conversions, c,
                    [jsonOutput |-> call.result,
                     tokenCount |-> JNum(estimateTokens(call.result)),
                     status |-> "completed"])
             /\ files' = updateFileStatus(fs, f, "completed")
             /\ lastDone' = [lastDone EXCEPT ![f] = c]
             /\ UNCHANGED procAlive
        ELSE IF call.pc = "threw"
        THEN /\ conversions' =
                  updateConversion(conversions, c,
                    [status |-> "error", error |-> JStr(call.error.message)])
             /\ files' = updateFileStatus(fs, f, "error")
             /\ lastDone' = [lastDone EXCEPT ![f] = c]
             /\ UNCHANGED procAlive
        ELSE IF call.pc = "crashed"
        THEN /\ procAlive' = FALSE
             /\ files' = fs
             /\ UNCHANGED <<conversions, lastDone>>
        ELSE /\ files' = fs
             /\ UNCHANGED <<conversions, lastDone, procAlive>>
     /\ UNCHANGED <<disk, responses, deleting, nextFile, nextConv, clock,
                    pfVars, tokVars>>

\* the setImmediate callback, to the first suspension of processFile
TaskStart(c) ==
  /\ procAlive
  /\ task[c].call.pc = "scheduled"
  /\ Resume(c, PFInvoke(task[c].call),
            updateFileStatus(files, task[c].fileId, "processing"))

\* a read or a stat succeeds only on a file that is still on the disk
TaskRead(c) ==
  /\ procAlive
  /\ task[c].call.pc = "read"
  /\ \E ok \in BOOLEAN :
       /\ ok => disk[task[c].fileId].present
       /\ Resume(c, PFReadDone(task[c].call, ok), files)

TaskStat(c) ==
  /\ procAlive
  /\ task[c].call.pc = "stat"
  /\ \E ok \in BOOLEAN :
       /\ ok => disk[task[c].fileId].present
       /\ Resume(c, PFStatDone(task[c].call, ok), files)

TaskParse(c) ==
  /\ procAlive
  /\ task[c].call.pc = "parse"
  /\ Resume(c, PFParseDone(task[c].call), files)

TaskData(c) ==
  /\ procAlive
  /\ task[c].call.pc = "stream"
  /\ Len(task[c].call.rows) < Len(DocOf(task[c].call).rows)
  /\ Resume(c, PFStreamData(task[c].call), files)

TaskEnd(c) ==
  /\ procAlive
  /\ task[c].call.pc = "stream"
  /\ Len(task[c].call.rows) = Len(DocOf(task[c].call).rows)
  /\ DocOf(task[c].call).csvValid
  /\ Resume(c, PFStreamEnd(task[c].call), files)

TaskParserError(c) ==
  /\ procAlive
  /\ task[c].call.pc = "stream"
  /\ Len(task[c].call.rows) = Len(DocOf(task[c].call).rows)
  /\ ~DocOf(task[c].call).csvValid
  /\ Resume(c, PFStreamParserError(task[c].call), files)

TaskReadError(c) ==
  /\ procAlive
  /\ task[c].call.pc = "stream"
  /\ Resume(c, PFStreamReadError(task[c].call), files)

\* DELETE /api/files/:id up to `await fs.unlink(...)`
DeleteRequest(f) ==
  /\ procAlive
  /\ files[f].exists
  /\ f \notin deleting
  /\ deleting' = deleting \cup {f}
  /\ UNCHANGED <<files, conversions, disk, task, responses, procAlive,
                 nextFile, nextConv, clock, lastDone, pfVars, tokVars>>

\* DELETE /api/files/:id past the unlink: storage.deleteFile(id)
DeleteFinish(f) ==
  /\ procAlive
  /\ f \in deleting
  /\ deleting' = deleting \ {f}
  /\ disk' = [disk EXCEPT ![f].present = FALSE]
  /\ files' = deleteFileRecord(files, f)
  /\ conversions' = deleteFileConversions(conversions, f)
  /\ UNCHANGED <<task, responses, procAlive, nextFile, nextConv, clock,
                 lastDone, pfVars, tokVars>>

TaskStep(c) ==
  \/ TaskStart(c)
  \/ TaskRead(c)
  \/ TaskStat(c)
  \/ TaskParse(c)
  \/ TaskData(c)
  \/ TaskEnd(c)
  \/ TaskParserError(c)
  \/ TaskReadError(c)

SrvNext ==
  \/ \E u \in Uploads : Upload(u)
  \/ \E f \in FileIds, r \in Requests : ConvertRequest(f, r)
  \/ \E f \in FileIds, r \in Requests : ConvertRejected(f, r)
  \/ \E c \in ConvIds : TaskStep(c)
  \/ \E f \in FileIds : DeleteRequest(f)
  \/ \E f \in FileIds : DeleteFinish(f)

(***************************************************************************)
(* The estimator applied to bounded inputs.                                *)
(***************************************************************************)
TokAlphabet == {"a", "bc", " ", "\n"}

TextsUpTo(n) == UNION {[1..k -> TokAlphabet] : k \in 0..n}

TokValues ==
  {JStr(s) : s \in TextsUpTo(MaxTextLen)}
    \cup {JNum(n) : n \in 0..MaxNum}
    \cup {JBool(b) : b \in BOOLEAN}
    \cup {JNull, JUndef, JArr(<<>>), JObj(<<>>, <<>>)}
    \cup {JArr(<<JStr(a), JStr(b)>>) : a, b \in TextsUpTo(1)}
    \cup {JObj(<<"k">>, <<JStr(a)>>) : a \in TextsUpTo(2)}
    \cup {JObj(<<"k", "m">>, <<JArr(<<JNum(n), JStr(a)>>), JNull>>) :
            n \in 0..MaxNum, a \in TextsUpTo(1)}
    \cup {JObj(<<"k">>, <<JObj(<<"m", "u">>, <<JStr(a), JUndef>>)>>) :
            a \in TextsUpTo(1)}
    \cup {JArr(<<JArr(<<>>), JBool(b), JObj(<<>>, <<>>)>>) : b \in BOOLEAN}

\* tokOut before the call: no value; after it, the value returned
NoResult == <<>>

TokInit == tokIn \in TokValues /\ tokOut = NoResult

Estimate ==
  /\ tokOut = NoResult
  /\ tokOut' = <<estimateTokens(tokIn)>>
  /\ UNCHANGED <<tokIn, srvVars, pfVars>>

\* t.repeat(n)
RECURSIVE Repeat(_, _)
Repeat(t, n) == IF n = 0 THEN <<>> ELSE Repeat(t, n - 1) \o t

\* estimateTokens of the text repeated once more than in the last call
EstimateRepeated ==
  /\ tokIn.t = "str"
  /\ tokOut # NoResult
  /\ Len(tokOut) < MaxRepeat
  /\ tokOut' = Append(tokOut,
                  estimateTokens(JStr(Repeat(tokIn.s, Len(tokOut) + 1))))
  /\ UNCHANGED <<tokIn, srvVars, pfVars>>

TokNext == Estimate \/ EstimateRepeated

(***************************************************************************)
(* The claims.                                                             *)
(***************************************************************************)
Terminal == {"completed", "error"}

Running == {"read", "stat", "parse", "stream"}

\* C1: every failure raised while a background conversion runs is caught
\* and recorded on the conversion's record as status 'error' with a
\* message; no failure escapes as an uncaught exception of the process.
C1_FailuresRecorded ==
  /\ procAlive
  /\ \A c \in ConvIds :
       /\ task[c].call.pc # "crashed"
       /\ (task[c].call.pc = "threw" /\ conversions[c].exists) =>
            (conversions[c].status = "error" /\ conversions[c].error.t = "str")

\* C2: every conversion leaves 'processing': a conversion that is still
\* 'processing' has a step of its task ahead of it, and the CSV promise has
\* settled once the stream has ended or failed.
C2_ConversionSettles ==
  \A c \in ConvIds :
    (conversions[c].exists /\ conversions[c].status = "processing") =>
      (procAlive /\ task[c].call.pc \in {"scheduled"} \cup Running)

\* C3: the convert request answers with a 'processing' record, jsonOutput
\* and tokenCount null, while the extraction of that conversion has not
\* run any step; the extraction starts in a later turn.
C3_RespondsBeforeExtraction ==
  \A c \in ConvIds :
    /\ task[c].call.pc # "none" =>
         /\ responses[c].sent
         /\ responses[c].status = "processing"
         /\ responses[c].jsonOutput = JNull
         /\ responses[c].tokenCount = JNull
         /\ responses[c].taskPc = "scheduled"
    /\ (task[c].call.pc = "scheduled" /\ conversions[c].exists) =>
         /\ conversions[c].status = "processing"
         /\ task[c].call.fsOps = <<>>

C3_Witness ==
  \E c \in ConvIds :
    /\ responses[c].sent
    /\ task[c].call.pc \in Running
    /\ conversions[c].exists

ConversionsOf(f) ==
  {c \in ConvIds : conversions[c].exists /\ conversions[c].fileId = f}

\* C4: conversions of one file run side by side; each writes its terminal
\* state to its own record, and once all of them have finished the file
\* has the terminal status of the one that finished last.
C4_LastWriteWins ==
  /\ \A c \in ConvIds :
       conversions[c].exists =>
         /\ conversions[c].status = "completed" <=> task[c].call.pc = "returned"
         /\ conversions[c].status = "error" <=> task[c].call.pc = "threw"
  /\ \A f \in FileIds :
       (/\ files[f].exists
        /\ ConversionsOf(f) # {}
        /\ \A c \in ConversionsOf(f) : conversions[c].status \in Terminal) =>
         /\ lastDone[f] \in ConversionsOf(f)
         /\ files[f].status = conversions[lastDone[f]].status

\* two conversions of one file, the first triggered finishing last with
\* the other outcome
C4_Witness ==
  \E f \in FileIds :
    /\ files[f].exists
    /\ ConversionsOf(f) = {1, 2}
    /\ lastDone[f] = 1
    /\ conversions[1].status = "completed"
    /\ conversions[2].status = "error"
    /\ files[f].status = "completed"

EnvelopeKeys == <<"document_type", "filename", "processed_at",
                  "conversion_type", "metadata", "content">>

IsCompleteEnvelope(e) ==
  /\ e.t = "obj"
  /\ e.keys = EnvelopeKeys
  /\ \A i \in 1..4 : e.kids[i].t = "str"
  /\ Get(e, "metadata").t = "obj"
  /\ HasKey(Get(e, "metadata"), "file_size")
  /\ Get(e, "content").t = "obj"

\* C5: every stored conversion record is well-formed for its status.
C5_WellFormedRecords ==
  \A c \in ConvIds :
    conversions[c].exists =>
      LET r == conversions[c]
      IN CASE r.status = "processing" ->
                r.jsonOutput = JNull /\ r.tokenCount = JNull /\ r.error = JNull
           [] r.status = "completed" ->
                /\ IsCompleteEnvelope(r.jsonOutput)
                /\ r.tokenCount = JNum(estimateTokens(r.jsonOutput))
                /\ r.error = JNull
           [] r.status = "error" ->
                /\ r.error.t = "str"
                /\ r.jsonOutput = JNull
                /\ r.tokenCount = JNull
           [] OTHER -> FALSE

C5_Witness ==
  \E c, d \in ConvIds :
    /\ conversions[c].exists /\ conversions[c].status = "completed"
    /\ conversions[d].exists /\ conversions[d].status = "error"

\* the known set, as the claim spells it
ClaimedTags ==
  {<<"p", "d", "f">>, <<"d", "o", "c", "x">>, <<"t", "x", "t">>, <<"m", "d">>,
   <<"c", "s", "v">>, <<"j", "s", "o", "n">>, <<"x", "m", "l">>,
   <<"j", "p", "g">>, <<"j", "p", "e", "g">>, <<"p", "n", "g">>,
   <<"g", "i", "f">>, <<"b", "m", "p">>, <<"w", "e", "b", "p">>}

Unsupported(call) == toLowerCase(call.fileType) \notin ClaimedTags

\* C6: a call with a type tag outside the known set fails without any
\* file system operation on filePath.
C6_NoFsOnUnsupported ==
  \A m \in Modes :
    (Unsupported(pf[m]) /\ pf[m].pc # "start") =>
      (pf[m].pc = "threw" /\ pf[m].fsOps = <<>>)

C6_Witness ==
  \E m \in Modes :
    /\ Unsupported(pf[m])
    /\ pf[m].pc = "threw"
    /\ pf[m].fileType # <<>>
    /\ \E k \in Modes : ~Unsupported(pf[k]) \/ pf[k].pc = "start"

\* the form of an ExtractionFailure: the format name and the cause in
\* `Failed to process <tag> file: <cause>`
HasExtractionForm(call) ==
  LET head == W(<<"Failed", "to", "process">>) \o <<" ">> \o call.fileType
                \o <<" ", "file:", " ">>
      msg == call.error.message
  IN /\ call.error.name = "Error"
     /\ Len(msg) > Len(head)
     /\ SubSeq(msg, 1, Len(head)) = head

\* C7: the failure for an unsupported tag is an outcome of its own, told
\* apart from the ExtractionFailure of a supported format, which carries
\* the format name and the cause in its message.
C7_UnsupportedDistinct ==
  \A m \in Modes :
    pf[m].pc = "threw" =>
      (HasExtractionForm(pf[m]) <=> ~Unsupported(pf[m]))

\* C8: every returned envelope has the lower-cased tag as document_type
\* and has metadata and content as mappings.
C8_EnvelopeShape ==
  \A m \in Modes :
    pf[m].pc = "returned" =>
      LET e == pf[m].result
      IN /\ Get(e, "document_type").t = "str"
         /\ Get(e, "document_type").s \in ClaimedTags
         /\ toUpperCase(Get(e, "document_type").s)
              = toUpperCase(pf[m].fileType)
         /\ HasKey(e, "metadata") /\ Get(e, "metadata").t = "obj"
         /\ HasKey(e, "content") /\ Get(e, "content").t = "obj"

\* an upper-case tag, and a degenerate result: no content at all
C8_Witness ==
  \E m \in Modes :
    /\ pf[m].pc = "returned"
    /\ pf[m].fileType # toLowerCase(pf[m].fileType)
    /\ Get(pf[m].result, "content") = JObj(<<>>, <<>>)

\* C9: the metadata of the envelope is the same under the three modes.
C9_MetadataModeInvariant ==
  \A m, k \in Modes :
    (pf[m].pc = "returned" /\ pf[k].pc = "returned") =>
      Get(pf[m].result, "metadata") = Get(pf[k].result, "metadata")

C9_Witness ==
  /\ \A m \in Modes : pf[m].pc = "returned"
  /\ \A m, k \in Modes :
       m # k => Get(pf[m].result, "content") # Get(pf[k].result, "content")
  /\ Len(Get(pf["summary"].result, "metadata").keys) > 5

\* the whitespace-delimited non-empty tokens, counted where they start
WordStarts(s) ==
  Cardinality({i \in 1..Len(s) : ~IsWs(s[i]) /\ (i = 1 \/ IsWs(s[i - 1]))})

\* the least n with d * n >= x
LeastCover(x, d) ==
  CHOOSE n \in 0..x : d * n >= x /\ \A k \in 0..x : d * k >= x => n <= k

\* C10: estimateTokens is round((ceil(c / 4) + ceil(w * 1.3)) / 2), halves
\* upward, and is an integer >= 0.
C10_EstimateFormula ==
  tokOut # NoResult =>
    LET text == extractTextFromContent(tokIn)
        c == TextLen(text)
        w == WordStarts(text)
        sum == LeastCover(c, 4) + LeastCover(13 * w, 10)
    IN /\ tokOut[1] \in Nat
       /\ 2 * tokOut[1] - 1 <= sum
       /\ sum <= 2 * tokOut[1]

\* a half that goes up, of a text with several words
C10_Witness ==
  /\ tokOut # NoResult
  /\ LET text == extractTextFromContent(tokIn)
     IN /\ WordStarts(text) >= 2
        /\ (LeastCover(TextLen(text), 4)
              + LeastCover(13 * WordStarts(text), 10)) % 2 = 1

\* C11: estimateTokens gives a result for every input, structures with
\* null, undefined or zero fields included, and the result is 0 whenever
\* the input flattens to the empty text.
C11_EmptyIsZero ==
  /\ estimateTokens(tokIn) \in Nat
  /\ tokOut # NoResult =>
       /\ tokOut[1] \in Nat
       /\ extractTextFromContent(tokIn) = <<>> => tokOut[1] = 0

\* the empty sequence and the empty mapping
C11_Witness ==
  /\ tokIn \in {JArr(<<>>), JObj(<<>>, <<>>)}
  /\ tokOut = <<0>>

\* C12: the estimate of a non-empty text repeated n + 1 times is at least
\* the estimate of the text repeated n times.
C12_MonotoneUnderRepetition ==
  (tokIn.t = "str" /\ tokIn.s # <<>>) =>
    \A n \in 1..(Len(tokOut) - 1) : tokOut[n + 1] >= tokOut[n]

\* a text with whitespace inside whose estimate grows with each repetition
C12_Witness ==
  /\ tokIn.t = "str"
  /\ \E i \in 1..Len(tokIn.s) : IsWs(tokIn.s[i])
  /\ \E i \in 1..Len(tokIn.s) : ~IsWs(tokIn.s[i])
  /\ Len(tokOut) = MaxRepeat
  /\ \A n \in 1..(MaxRepeat - 1) : tokOut[n + 1] > tokOut[n]

\* the parts joined by single spaces, built from the right
RECURSIVE JoinedBySpaces(_, _)
JoinedBySpaces(parts, n) ==
  IF n = 0 THEN <<>>
  ELSE IF n = 1 THEN parts[1]
  ELSE JoinedBySpaces(parts, n - 1) \o <<" ">> \o parts[n]

\* a value, its elements and the elements of its elements
Nodes(v) ==
  {v} \cup {v.kids[i] : i \in 1..Len(v.kids)}
      \cup UNION {{v.kids[i].kids[j] : j \in 1..Len(v.kids[i].kids)} :
                    i \in 1..Len(v.kids)}

\* the flattening of one node, by the flattening of its elements
FlattensAsStated(v) ==
  LET text == extractTextFromContent(v)
      n == Len(v.kids)
  IN CASE v.t = "str" -> text = v.s
       [] v.t = "arr" ->
            text = JoinedBySpaces(
                     [i \in 1..n |-> extractTextFromContent(v.kids[i])], n)
       [] v.t = "obj" ->
            text = JoinedBySpaces(
                     [i \in 1..(2 * n) |->
                        IF i % 2 = 1 THEN <<v.keys[(i + 1) \div 2]>>
                        ELSE extractTextFromContent(v.kids[i \div 2])],
                     2 * n)
       [] v.t = "num" -> text = Digits(v.n)
       [] v.t = "bool" -> text = IF v.n = 1 THEN <<"true">> ELSE <<"false">>
       [] v.t = "null" -> text = <<"null">>
       [] OTHER -> text = <<"undefined">>

\* C13: a string flattens to itself, a sequence to its flattened elements
\* joined by single spaces, a mapping to its keys each followed by its
\* flattened value, joined by single spaces, another scalar to its string
\* form; so the key names at every depth are in the text that is counted.
C13_FlatteningAsStated ==
  /\ \A v \in Nodes(tokIn) : FlattensAsStated(v)
  /\ tokOut # NoResult =>
       tokOut[1] = Average(CeilDiv(TextLen(extractTextFromContent(tokIn)), 4),
                           CeilDiv(13 * WordStarts(
                                          extractTextFromContent(tokIn)), 10))

\* keys at two depths, an undefined value: "k m  u undefined"
C13_Witness ==
  /\ tokIn = JObj(<<"k">>, <<JObj(<<"m", "u">>, <<JStr(<<>>), JUndef>>)>>)
  /\ extractTextFromContent(tokIn) = <<"k", " ", "m", " ", " ", "u", " ",
                                       "undefined">>
  /\ tokOut = <<5>>

\* the calls of processFile on a csv tag that have returned
CsvReturned(l) ==
  /\ toLowerCase(pf[l].fileType) = Csv
  /\ pf[l].pc = "returned"

\* the n rows of the file as row objects
FileRows(call) ==
  [i \in 1..Len(DocOf(call).rows) |->
     RowObject(DocOf(call).headers, DocOf(call).rows[i])]

\* C14: for a CSV file of n rows the envelope has row_count n and the keys
\* of the first row as headers (none when n = 0); summary mode gives the
\* first min(5, n) rows as sample_rows, full_content mode all n rows as
\* data; the envelope exists only once every row has been delivered.
C14_CsvRows ==
  \A l \in DOMAIN pf :
    CsvReturned(l) =>
      LET call == pf[l]
          n == Len(DocOf(call).rows)
          all == FileRows(call)
          metadata == Get(call.result, "metadata")
          content == Get(call.result, "content")
          mode == call.options.conversionType
      IN /\ Len(call.rows) = n
         /\ Get(metadata, "row_count") = JNum(n)
         /\ Get(metadata, "headers")
              = JArr(IF n = 0 THEN <<>>
                     ELSE StrList(KeyTexts(all[1].keys)))
         /\ mode = "summary" =>
              Get(content, "sample_rows")
                = JArr([i \in 1..(IF n < 5 THEN n ELSE 5) |-> all[i]])
         /\ mode = "full_content" => Get(content, "data") = JArr(all)

\* twelve rows, five of them sampled
C14_Witness ==
  \E l \in DOMAIN pf :
    /\ CsvReturned(l)
    /\ pf[l].options.conversionType = "summary"
    /\ Len(DocOf(pf[l]).rows) = 12
    /\ Len(Get(Get(pf[l].result, "content"), "sample_rows").kids) = 5
    /\ Get(Get(pf[l].result, "metadata"), "row_count") = JNum(12)

\* the non-empty values of column j in the first ten rows of the file
FirstTenValues(call, j) ==
  LET rows == DocOf(call).rows
      shown == {i \in 1..Len(rows) : i <= 10 /\ rows[i][j] # <<>>}
  IN {rows[i][j] : i \in shown}

HasPoint(value) == \E i \in 1..Len(value) : value[i] = "."

IsBooleanLiteral(value) ==
  toLowerCase(value) \in {<<"t", "r", "u", "e">>, <<"f", "a", "l", "s", "e">>}

\* the type the claim gives a column with these values
ClaimedColumnType(values) ==
  IF values = {} THEN <<"unknown">>
  ELSE IF \A v \in values : IsNumeric(v) /\ ~HasPoint(v) THEN <<"integer">>
  ELSE IF \A v \in values : IsNumeric(v) THEN <<"float">>
  ELSE IF \A v \in values : IsBooleanLiteral(v) THEN <<"boolean">>
  ELSE <<"string">>

\* C15: in CSV metadata_only mode data_types gives each header one type,
\* inferred from the values of its column in the first 10 rows: integer for
\* numeric values without a decimal point, float for numeric values with
\* one, boolean for true/false in any case, otherwise string, and unknown
\* exactly when the column has no non-empty value in those rows.
C15_ColumnTypes ==
  \A l \in DOMAIN pf :
    (CsvReturned(l) /\ pf[l].options.conversionType = "metadata_only"
       /\ Len(DocOf(pf[l]).rows) > 0) =>
      LET call == pf[l]
          headers == DocOf(call).headers
          types == Get(Get(Get(call.result, "content"), "structure"),
                       "data_types")
      IN /\ types.keys = headers
         /\ \A j \in 1..Len(headers) :
              types.kids[j]
                = JStr(ClaimedColumnType(FirstTenValues(call, j)))

\* r is the least integer with wc <= per * r
IsCeilOf(r, wc, per) ==
  /\ r.t = "num"
  /\ wc <= per * r.n
  /\ per * (r.n - 1) < wc

\* C16: for PDF and DOCX in metadata_only mode the estimated reading time
\* is ceil(word_count / 200) of the word_count the metadata reports, which
\* is the number of words of the text; every estimated_pages of a DOCX is
\* ceil(word_count / 250).
C16_CeilingEstimates ==
  \A l \in DOMAIN pf :
    (pf[l].pc = "returned" /\ toLowerCase(pf[l].fileType) \in {Pdf, Docx}) =>
      LET call == pf[l]
          mode == call.options.conversionType
          wc == Get(Get(call.result, "metadata"), "word_count")
          content == Get(call.result, "content")
          isDocx == toLowerCase(call.fileType) = Docx
      IN /\ wc = JNum(WordStarts(DocOf(call).text))
         /\ mode = "metadata_only" =>
              IsCeilOf(Get(Get(content, "structure"),
                           "estimated_reading_time_minutes"), wc.n, 200)
         /\ (mode = "metadata_only" /\ isDocx) =>
              IsCeilOf(Get(Get(content, "structure"), "estimated_pages"),
                       wc.n, 250)
         /\ (mode = "summary" /\ isDocx) =>
              IsCeilOf(Get(Get(content, "key_statistics"),
                           "estimated_pages"), wc.n, 250)

\* 201 words: two minutes, one page
C16_Witness ==
  \E l \in DOMAIN pf :
    /\ pf[l].pc = "returned"
    /\ toLowerCase(pf[l].fileType) = Docx
    /\ pf[l].options.conversionType = "metadata_only"
    /\ Get(Get(pf[l].result, "metadata"), "word_count") = JNum(201)
    /\ Get(Get(pf[l].result, "content"), "structure")
         = JObj(<<"document_type", "has_text",
                  "estimated_reading_time_minutes", "estimated_pages">>,
                <<JStr(<<"DOCX">>), JBool(TRUE), JNum(2), JNum(1)>>)

\* C17: for JSON input in full_content mode content.data is the parsed
\* value of the file, with nothing added, dropped, truncated or reordered.
C17_JsonDataIsParsedValue ==
  \A l \in DOMAIN pf :
    (pf[l].pc = "returned" /\ toLowerCase(pf[l].fileType) = Json
       /\ pf[l].options.conversionType = "full_content") =>
      /\ Get(pf[l].result, "content").keys = <<"data">>
      /\ Get(pf[l].result, "content").kids = <<DocOf(pf[l]).json>>

\* an array of more items than the summary samples, an object among them
C17_Witness ==
  \E l \in DOMAIN pf :
    /\ pf[l].pc = "returned"
    /\ toLowerCase(pf[l].fileType) = Json
    /\ pf[l].options.conversionType = "full_content"
    /\ Get(Get(pf[l].result, "content"), "data")
         = JArr(<<JNum(1), JNum(2), JObj(<<>>, <<>>), JStr(<<"z">>)>>)

\* the failure is one of reading the file
IsReadFailure(error) ==
  \E i \in 1..Len(error.message) : error.message[i] = "ENOENT:"

\* the item count of an array, the key count of an object; what the count
\* of any other top-level value is the claim leaves open
ClaimedKeyCount(v, n) ==
  CASE v.t = "arr" -> n = Len(v.kids)
    [] v.t = "obj" -> n = Len(v.keys)
    [] OTHER -> n \in Nat

\* C18: for the json tag processFile fails only when the file cannot be
\* read or is not valid JSON; every valid JSON document, whatever its
\* top-level value, yields an envelope with structure_type 'array' or
\* 'object' and the item/key count as key_count.
C18_JsonFailsOnlyOnBadInput ==
  \A l \in DOMAIN pf :
    toLowerCase(pf[l].fileType) = Json =>
      /\ pf[l].pc = "threw" =>
           (~DocOf(pf[l]).jsonValid \/ IsReadFailure(pf[l].error))
      /\ pf[l].pc = "returned" =>
           LET metadata == Get(pf[l].result, "metadata")
               v == DocOf(pf[l]).json
           IN /\ Get(metadata, "structure_type")
                   = JStr(IF v.t = "arr" THEN <<"array">> ELSE <<"object">>)
              /\ Get(metadata, "key_count").t = "num"
              /\ ClaimedKeyCount(v, Get(metadata, "key_count").n)

\* the metadata keys each of the three formats sets
PopulatedKeys(tag) ==
  IF tag \in {Txt, Md}
  THEN <<"file_size", "line_count", "word_count", "character_count">>
  ELSE IF tag = Json THEN <<"file_size", "structure_type", "key_count">>
  ELSE <<"file_size", "tag_count", "unique_tags", "root_elements">>

\* C19: in metadata_only mode text, markdown, JSON and XML return an empty
\* mapping as content, with every metadata field set; PDF, DOCX, CSV and
\* the image formats return a content whose only key is 'structure'.
C19_MetadataOnlyContent ==
  \A l \in DOMAIN pf :
    (pf[l].pc = "returned"
       /\ pf[l].options.conversionType = "metadata_only") =>
      LET tag == toLowerCase(pf[l].fileType)
          metadata == Get(pf[l].result, "metadata")
          content == Get(pf[l].result, "content")
      IN /\ HasKey(pf[l].result, "content")
         /\ tag \in {Txt, Md, Json, Xml} =>
              /\ content = JObj(<<>>, <<>>)
              /\ metadata.keys = PopulatedKeys(tag)
              /\ \A i \in 1..Len(metadata.kids) :
                   metadata.kids[i].t \in {"num", "str", "arr"}
         /\ tag \in {Pdf, Docx, Csv} \cup ImageTags =>
              /\ content.keys = <<"structure">>
              /\ content.kids[1].t = "obj"
              /\ content.kids[1].keys # <<>>

\* a markdown file of 201 words: counted in the metadata, no content
C19_Witness ==
  \E l \in DOMAIN pf :
    /\ pf[l].pc = "returned"
    /\ pf[l].options.conversionType = "metadata_only"
    /\ toLowerCase(pf[l].fileType) = Md
    /\ Get(Get(pf[l].result, "metadata"), "word_count") = JNum(201)
    /\ Get(pf[l].result, "content") = JObj(<<>>, <<>>)

\* the two calls have the same file, tag, mode and preserveFormatting and
\* differ in includeTables or includeImages
DifferInFlagsOnly(a, b) ==
  /\ a.doc = b.doc /\ a.filePath = b.filePath /\ a.filename = b.filename
  /\ a.fileType = b.fileType
  /\ a.options.conversionType = b.options.conversionType
  /\ a.options.preserveFormatting = b.options.preserveFormatting
  /\ \/ a.options.includeTables # b.options.includeTables
     \/ a.options.includeImages # b.options.includeImages

EstimateShown(call) ==
  estimatedTokens(DocOf(call).size, call.options.conversionType,
                  call.options.includeTables, call.options.includeImages)

\* C20: two calls of processFile that differ only in includeTables or
\* includeImages return envelopes equal in every field but processed_at;
\* what the flags change is the estimate of the upload form, which never
\* falls when a flag is set.
C20_FlagsDoNotReachEnvelope ==
  \A k, l \in DOMAIN pf :
    DifferInFlagsOnly(pf[k], pf[l]) =>
      /\ (pf[k].pc = "returned" /\ pf[l].pc = "returned") =>
           /\ pf[k].result.keys = pf[l].result.keys
           /\ \A i \in 1..Len(pf[k].result.keys) :
                pf[k].result.keys[i] # "processed_at" =>
                  pf[k].result.kids[i] = pf[l].result.kids[i]
      /\ (k = "plain" /\ l = "flagged") =>
           EstimateShown(pf[k]) <= EstimateShown(pf[l])

\* both calls returned, on a document with content: the envelopes differ
\* in processed_at only, the estimates of the form differ
C20_Witness ==
  /\ DifferInFlagsOnly(pf["plain"], pf["flagged"])
  /\ pf["plain"].pc = "returned" /\ pf["flagged"].pc = "returned"
  /\ Get(pf["plain"].result, "processed_at")
       # Get(pf["flagged"].result, "processed_at")
  /\ Len(Get(pf["plain"].result, "content").keys) > 2
  /\ EstimateShown(pf["plain"]) < EstimateShown(pf["flagged"])

AtMost(k, n) == IF n < k THEN n ELSE k

\* the first min(k, n) and the last min(k, n) of the n elements of a,
\* in the order of a
IsHeadOf(list, a, k) ==
  list = JArr([i \in 1..AtMost(k, Len(a)) |-> JStr(a[i])])

IsTailOf(list, a, k) ==
  list = JArr([i \in 1..AtMost(k, Len(a)) |->
                 JStr(a[Len(a) - AtMost(k, Len(a)) + i])])

AllDistinct(a) == \A i, j \in 1..Len(a) : a[i] = a[j] => i = j

\* the head and the tail list take no element of a twice, and where the
\* elements of a differ from one another they have no value in common
ShareNoElement(head, tail, a) ==
  /\ Len(head.kids) + Len(tail.kids) <= Len(a)
  /\ AllDistinct(a) =>
       {head.kids[i] : i \in 1..Len(head.kids)}
         \cap {tail.kids[i] : i \in 1..Len(tail.kids)} = {}

\* C21: in summary mode first_paragraphs and last_paragraphs of a PDF or
\* DOCX are the first min(3, n) and the last min(2, n) of the n non-blank
\* paragraphs, first_lines and last_lines of a text file the first and
\* the last min(5, n) of the n non-blank lines, in document order; head
\* and tail share no element exactly when n >= 5, or n >= 10 for lines.
C21_HeadAndTail ==
  \A l \in DOMAIN pf :
    (pf[l].pc = "returned" /\ pf[l].options.conversionType = "summary") =>
      LET tag == toLowerCase(pf[l].fileType)
          content == Get(pf[l].result, "content")
          paragraphs == Paragraphs(DocOf(pf[l]).text)
          lines == Lines(DocOf(pf[l]).text)
      IN /\ tag \in {Pdf, Docx} =>
              /\ IsHeadOf(Get(content, "first_paragraphs"), paragraphs, 3)
              /\ IsTailOf(Get(content, "last_paragraphs"), paragraphs, 2)
              /\ ShareNoElement(Get(content, "first_paragraphs"),
                                Get(content, "last_paragraphs"), paragraphs)
                   <=> Len(paragraphs) >= 5
         /\ tag \in {Txt, Md} =>
              /\ IsHeadOf(Get(content, "first_lines"), lines, 5)
              /\ IsTailOf(Get(content, "last_lines"), lines, 5)
              /\ ShareNoElement(Get(content, "first_lines"),
                                Get(content, "last_lines"), lines)
                   <=> Len(lines) >= 10

\* C21 as amended: the same lists; head and tail share no element exactly
\* when n = 0 or n >= 5 for paragraphs, n = 0 or n >= 10 for lines.
C21_HeadAndTailOrNone ==
  \A l \in DOMAIN pf :
    (pf[l].pc = "returned" /\ pf[l].options.conversionType = "summary") =>
      LET tag == toLowerCase(pf[l].fileType)
          content == Get(pf[l].result, "content")
          paragraphs == Paragraphs(DocOf(pf[l]).text)
          lines == Lines(DocOf(pf[l]).text)
      IN /\ tag \in {Pdf, Docx} =>
              /\ IsHeadOf(Get(content, "first_paragraphs"), paragraphs, 3)
              /\ IsTailOf(Get(content, "last_paragraphs"), paragraphs, 2)
              /\ ShareNoElement(Get(content, "first_paragraphs"),
                                Get(content, "last_paragraphs"), paragraphs)
                   <=> (Len(paragraphs) = 0 \/ Len(paragraphs) >= 5)
         /\ tag \in {Txt, Md} =>
              /\ IsHeadOf(Get(content, "first_lines"), lines, 5)
              /\ IsTailOf(Get(content, "last_lines"), lines, 5)
              /\ ShareNoElement(Get(content, "first_lines"),
                                Get(content, "last_lines"), lines)
                   <=> (Len(lines) = 0 \/ Len(lines) >= 10)

\* six paragraphs: three at the head, two others at the tail
C21_Witness ==
  \E l \in DOMAIN pf :
    /\ pf[l].pc = "returned"
    /\ pf[l].options.conversionType = "summary"
    /\ toLowerCase(pf[l].fileType) = Pdf
    /\ Len(Paragraphs(DocOf(pf[l]).text)) = 6
    /\ Len(Get(Get(pf[l].result, "content"), "first_paragraphs").kids) = 3
    /\ Get(Get(pf[l].result, "content"), "last_paragraphs")
         = JArr(<<JStr(<<"g", "\n", "h">>),
                  JStr(<<"i", "\n", "j", "\n", "k">>)>>)

\* the two calls have the same file, tag, mode and flags; only the second
\* preserves formatting
DifferInFormattingOnly(a, b) ==
  /\ a.doc = b.doc /\ a.filePath = b.filePath /\ a.filename = b.filename
  /\ a.fileType = b.fileType
  /\ a.options.conversionType = b.options.conversionType
  /\ a.options.includeTables = b.options.includeTables
  /\ a.options.includeImages = b.options.includeImages
  /\ ~a.options.preserveFormatting /\ b.options.preserveFormatting

\* two mappings with the same keys and values, the keys named set aside
EqualBut(x, y, keys) ==
  /\ \A i \in 1..Len(x.keys) : x.keys[i] \notin keys => HasKey(y, x.keys[i])
  /\ \A j \in 1..Len(y.keys) : y.keys[j] \notin keys => HasKey(x, y.keys[j])
  /\ \A i \in 1..Len(x.keys), j \in 1..Len(y.keys) :
       (x.keys[i] = y.keys[j] /\ x.keys[i] \notin keys) =>
         x.kids[i] = y.kids[j]

\* the effects of preserveFormatting on a pair of envelopes, off and on,
\* with docxKeys the content keys of a DOCX in full_content mode it may
\* touch
FormattingEffects(off, on, call, docxKeys) ==
  LET tag == toLowerCase(call.fileType)
      mode == call.options.conversionType
      text == DocOf(call).text
      full == mode = "full_content"
      metaOff == Get(off, "metadata")
      metaOn == Get(on, "metadata")
      contOff == Get(off, "content")
      contOn == Get(on, "content")
  IN /\ EqualBut(off, on, {"processed_at", "metadata", "content"})
     /\ EqualBut(metaOff, metaOn,
                 IF tag = Docx THEN {"has_formatting"} ELSE {})
     /\ EqualBut(contOff, contOn,
                 IF tag = Pdf /\ full THEN {"lines", "formatting"}
                 ELSE IF tag = Docx /\ full THEN docxKeys ELSE {})
     /\ (tag = Pdf /\ full) =>
          /\ Get(contOn, "lines") = JArr(StrList(SplitNl(text)))
          /\ Get(contOn, "formatting") = JStr(<<"preserved">>)
          /\ Get(contOff, "lines")
               = JArr(StrList(SelectSeq(MapTrim(SplitNl(text)), NonEmpty)))
          /\ Get(contOff, "formatting") = JStr(<<"cleaned">>)
     /\ tag = Docx =>
          /\ Get(metaOff, "has_formatting") = JBool(FALSE)
          /\ Get(metaOn, "has_formatting")
               = JBool(TextLen(DocOf(call).html) > TextLen(text))
          /\ ~HasKey(contOff, "html_content")
          /\ HasKey(contOn, "html_content") <=> full
          /\ full => Get(contOn, "html_content") = JStr(DocOf(call).html)

C23_ConversionsHaveFiles ==
  \A c \in ConvIds :
    conversions[c].exists =>
      /\ conversions[c].fileId \in FileIds
      /\ files[conversions[c].fileId].exists

\* a file deleted with a conversion in flight, whose record went with it
\* while the conversion of another file stays
C23_Witness ==
  \E c, d \in ConvIds :
    /\ task[c].fileId \in FileIds
    /\ ~files[task[c].fileId].exists
    /\ ~conversions[c].exists
    /\ task[c].call.pc \in {"read", "stat", "parse", "stream"}
    /\ conversions[d].exists

\* C24: the status of a conversion record changes at most once, from
\* 'processing' to 'completed' or 'error'; once it is terminal no step
\* changes the record's status, jsonOutput, tokenCount or error.
C24_TerminalIsFinal ==
  [][\A c \in ConvIds :
       (conversions[c].exists /\ conversions'[c].exists) =>
         /\ conversions[c].status # conversions'[c].status =>
              /\ conversions[c].status = "processing"
              /\ conversions'[c].status \in Terminal
         /\ conversions[c].status \in Terminal =>
              /\ conversions'[c].status = conversions[c].status
              /\ conversions'[c].jsonOutput = conversions[c].jsonOutput
              /\ conversions'[c].tokenCount = conversions[c].tokenCount
              /\ conversions'[c].error = conversions[c].error]_vars

\* two conversions of one file in different modes, both settled: the
\* second settled while the first was terminal already
C24_Witness ==
  \E c, d \in ConvIds :
    /\ c # d
    /\ conversions[c].exists /\ conversions[d].exists
    /\ conversions[c].fileId = conversions[d].fileId
    /\ conversions[c].status = "completed"
    /\ conversions[d].status \in Terminal
    /\ conversions[c].jsonOutput # conversions[d].jsonOutput
    /\ lastDone[conversions[c].fileId] = d

\* C25: the step of a conversion whose file has been deleted, its
\* completion and its failure included, leaves the file records and the
\* conversion records as they are: nothing is recreated.
C25_SettlingAfterDeleteIsNoOp ==
  [][\A c \in ConvIds :
       (task[c].fileId \in FileIds /\ ~files[task[c].fileId].exists
          /\ task'[c] # task[c]) =>
         (files' = files /\ conversions' = conversions)]_vars

\* a conversion that has settled with its file and its own record gone,
\* next to a conversion of the same file that is still in flight
C25_Witness ==
  \E c, d \in ConvIds :
    /\ task[c].fileId \in FileIds
    /\ task[d].fileId = task[c].fileId
    /\ ~files[task[c].fileId].exists
    /\ ~conversions[c].exists /\ ~conversions[d].exists
    /\ task[c].call.pc = "returned"
    /\ task[d].call.pc \in {"scheduled", "read", "stat", "parse", "stream"}

\* C26: a step of the background task of a conversion of file A writes
\* only the status of A and its own conversion record; every other file
\* record and every other conversion record, other conversions of A
\* included, stays as it is.
C26_TasksDoNotInterfere ==
  [][\A c \in ConvIds :
       (task[c].fileId \in FileIds /\ task'[c] # task[c]) =>
         /\ \A f \in FileIds :
              IF f = task[c].fileId
              THEN files'[f] = [files[f] EXCEPT !.status = files'[f].status]
              ELSE files'[f] = files[f]
         /\ \A d \in ConvIds : d # c => conversions'[d] = conversions[d]]_vars

\* two files, a conversion of each: one settled, the other in flight and
\* its file still 'processing'
C26_Witness ==
  \E c, d \in ConvIds :
    /\ conversions[c].exists /\ conversions[d].exists
    /\ conversions[c].fileId # conversions[d].fileId
    /\ conversions[c].status = "completed"
    /\ files[conversions[c].fileId].status = "completed"
    /\ conversions[d].status = "processing"
    /\ files[conversions[d].fileId].status = "processing"

\* GET /api/files: the conversions of the file sorted by createdAt, the
\* greatest first, and the head of that list taken; the sort is stable,
\* so of two records of one instant the one created first is taken
latestConversion(f) ==
  CHOOSE c \in ConversionsOf(f) :
    \A d \in ConversionsOf(f) :
      \/ conversions[d].createdAt < conversions[c].createdAt
      \/ conversions[d].createdAt = conversions[c].createdAt /\ c <= d

\* C27: once every conversion of a file is terminal the file has the
\* status of its latestConversion, the one created last; while a
\* conversion of the file is 'processing' the file is neither 'completed'
\* nor 'error'.
C27_StatusOfLatestConversion ==
  \A f \in FileIds :
    (files[f].exists /\ ConversionsOf(f) # {}) =>
      /\ (\A c \in ConversionsOf(f) : conversions[c].status \in Terminal) =>
           files[f].status = conversions[latestConversion(f)].status
      /\ (\E c \in ConversionsOf(f) : conversions[c].status = "processing")
           => files[f].status \notin Terminal

SaysUnsupported(message) ==
  \E i \in 1..Len(message) : message[i] = "Unsupported"

\* C28: every type tag the upload route stores is one of pdf, docx, txt,
\* md, csv, json, xml, each a tag the dispatcher supports; no conversion
\* of an uploaded file ends in the 'Unsupported file type' error.
C28_UploadedTagsAreSupported ==
  /\ \A f \in FileIds :
       files[f].exists =>
         /\ files[f].fileType \in {Pdf, Docx, Txt, Md, Csv, Json, Xml}
         /\ files[f].fileType \in KnownTags
  /\ \A c \in ConvIds :
       /\ task[c].call.pc = "threw" =>
            ~SaysUnsupported(task[c].call.error.message)
       /\ (conversions[c].exists /\ conversions[c].status = "error") =>
            ~SaysUnsupported(conversions[c].error.s)

\* a file uploaded as .CSV and stored as csv, whose conversion has
\* failed
C28_Witness ==
  \E c \in ConvIds :
    /\ conversions[c].exists
    /\ conversions[c].status = "error"
    /\ files[conversions[c].fileId].originalName = <<"r", ".", "C", "S", "V">>
    /\ files[conversions[c].fileId].fileType = Csv

ModeNames == {"summary", "full_content", "metadata_only"}

\* C29: the conversionType of every stored conversion record and the
\* conversion_type of every persisted envelope is one of summary,
\* full_content, metadata_only: a request with another or no
\* conversionType creates no record and starts no extraction.
C29_OnlyTheThreeModes ==
  \A c \in ConvIds :
    /\ conversions[c].exists =>
         /\ conversions[c].conversionType \in ModeNames
         /\ conversions[c].jsonOutput # JNull =>
              \E m \in ModeNames :
                Get(conversions[c].jsonOutput, "conversion_type") = JStr(<<m>>)
    /\ task[c] # NoTask =>
         task[c].call.options.conversionType \in ModeNames

\* C30: for a text or markdown file metadata.word_count is the number of
\* whitespace-delimited non-empty tokens of the content, as for PDF and
\* DOCX: 0 for an empty or all-blank file, and the same whatever
\* whitespace leads or trails.
C30_TextWordCount ==
  \A l \in DOMAIN pf :
    (pf[l].pc = "returned" /\ toLowerCase(pf[l].fileType) \in {Txt, Md}) =>
      /\ Get(Get(pf[l].result, "metadata"), "word_count")
           = JNum(WordStarts(DocOf(pf[l]).text))
      /\ Get(Get(pf[l].result, "metadata"), "word_count")
           = Get(PdfMetadata(pf[l]), "word_count")

(***************************************************************************)
(* The specifications.                                                     *)
(***************************************************************************)
SrvIdle == SrvInit

PFIdle == pf = [m \in Modes |-> NoCall]

TokIdle == tokIn = JNull /\ tokOut = NoResult

Init == SrvInit /\ PFIdle /\ TokIdle

Next == SrvNext

Spec == Init /\ [][Next]_vars

InitPF == PFInit /\ SrvIdle /\ TokIdle

NextPF == PFNext

SpecPF == InitPF /\ [][NextPF]_vars

InitTok == TokInit /\ SrvIdle /\ PFIdle

NextTok == TokNext

SpecTok == InitTok /\ [][NextTok]_vars

InitFlags == FlagsInit /\ SrvIdle /\ TokIdle

NextFlags == FlagsNext

SpecFlags == InitFlags /\ [][NextFlags]_vars

====
